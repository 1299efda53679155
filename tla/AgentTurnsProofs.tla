------------------------- MODULE AgentTurnsProofs -------------------------
(***************************************************************************)
(* What holds of the badges for any communities, turns, frames and bounds: *)
(* the save and restore of the stores, their types, the replay of the      *)
(* buffer, and the badge of a turn whose end is recorded.                  *)
(*                                                                         *)
(* The fold of the buffer is a recursive function.  Facts about it are     *)
(* proved by induction over sets of numbers (module SetInduction).         *)
(***************************************************************************)
EXTENDS AgentTurns, SetInduction, TLAPS

\* A community that is applied has no snapshot, and prev is the applied one.
NoSnapshotOfPrev ==
  /\ saved = [c \in Communities |-> saved[c]]
  /\ active \in Communities
  /\ prev \in Communities \cup {None}
  /\ prev # None => saved[prev] = NoSnapshot

\* What the communities rest on: an unmounted tree has empty stores.
SlateInv ==
  /\ NoSnapshotOfPrev
  /\ CleanSlate
  /\ mounted => ~binding

\* Ageing an empty map changes nothing.
LEMMA OlderOfEmpty == Older(<<>>) = <<>>
BY DEF Older

\* The steps that leave the communities alone keep what is known of the snapshots.
LEMMA CommunityKept ==
  ASSUME NoSnapshotOfPrev, UNCHANGED communityVars
  PROVE  NoSnapshotOfPrev'
BY DEF NoSnapshotOfPrev, communityVars

\* The host touches neither the stores nor the communities.
LEMMA HostKeeps == Host => UNCHANGED <<buffer, store, communityVars, stream>>
<1>1. ASSUME NEW kind, NEW t, NEW turnId, NEW at, NEW phase, Send(kind, t, turnId, at, phase)
      PROVE  UNCHANGED <<buffer, store, communityVars, stream>>
  BY <1>1, Zenon DEF Send
<1>2. HostCrashes => UNCHANGED <<buffer, store, communityVars, stream>>
  BY Zenon DEF HostCrashes
<1>3. ASSUME NEW t \in Turns, NEW at \in 1..MaxClock,
             HostStarts(t, at) \/ HostPings(t, at) \/ HostCompletes(t, at) \/ HostPanics(t, at)
      PROVE  UNCHANGED <<buffer, store, communityVars, stream>>
  BY <1>1, <1>3, Zenon DEF HostStarts, HostPings, HostCompletes, HostPanics
<1>4. ASSUME NEW t \in Turns, HostPingsLate(t)
      PROVE  UNCHANGED <<buffer, store, communityVars, stream>>
  BY <1>1, <1>4, Zenon DEF HostPingsLate
<1> QED
  BY <1>2, <1>3, <1>4, Zenon DEF Host

LEMMA InitSlate == Init => SlateInv
BY TurnsAssumption DEF Init, SlateInv, NoSnapshotOfPrev, CleanSlate

LEMMA HostSlate == SlateInv /\ Host => SlateInv'
<1> SUFFICES ASSUME SlateInv, Host PROVE SlateInv'
  OBVIOUS
<1>1. UNCHANGED <<buffer, store, communityVars, stream>>
  BY HostKeeps
<1>2. NoSnapshotOfPrev'
  BY <1>1, CommunityKept DEF SlateInv
<1> QED
  BY <1>1, <1>2 DEF SlateInv, CleanSlate, communityVars

\* A stream exists only while the tree is mounted.
LEMMA StreamSlate == SlateInv /\ Stream => SlateInv'
<1> SUFFICES ASSUME SlateInv, Stream PROVE SlateInv'
  OBVIOUS
<1>1. mounted /\ UNCHANGED communityVars
  BY DEF Stream, EnsureSubscription, Connected, Ingest, SyncAll, SlateInv, CleanSlate
<1>2. NoSnapshotOfPrev'
  BY <1>1, CommunityKept DEF SlateInv
<1> QED
  BY <1>1, <1>2 DEF SlateInv, CleanSlate, communityVars

LEMMA TickSlate == SlateInv /\ Tick => SlateInv'
<1> SUFFICES ASSUME SlateInv, Tick PROVE SlateInv'
  OBVIOUS
<1>1. NoSnapshotOfPrev'
  BY CommunityKept DEF SlateInv, Tick
<1>2. ASSUME ~mounted PROVE store' = EmptyStore
  <2>1. store = EmptyStore
    BY <1>2 DEF SlateInv, CleanSlate
  <2>2. store' = [store EXCEPT !.turns = Older(store.turns)]
    BY <1>2 DEF Tick
  <2> QED
    BY <2>1, <2>2, OlderOfEmpty DEF EmptyStore
<1> QED
  BY <1>1, <1>2 DEF SlateInv, CleanSlate, Tick, communityVars

\* The left community is saved, and forgotten as the one to save.
LEMMA SwitchSlate ==
  ASSUME SlateInv, NEW c \in Communities, Switch(c)
  PROVE  SlateInv'
<1>1. NoSnapshotOfPrev'
  BY DEF SlateInv, NoSnapshotOfPrev, Switch, SavePrev
<1> QED
  BY <1>1 DEF SlateInv, CleanSlate, Switch, ResetCommunityState

LEMMA BoundSlate == SlateInv /\ Bound => SlateInv'
<1> SUFFICES ASSUME SlateInv, Bound PROVE SlateInv'
  OBVIOUS
<1>1. NoSnapshotOfPrev'
  BY DEF SlateInv, NoSnapshotOfPrev, Bound
<1> QED
  BY <1>1 DEF SlateInv, CleanSlate, Bound

LEMMA BindFailsSlate == SlateInv /\ BindFails => SlateInv'
BY DEF SlateInv, NoSnapshotOfPrev, CleanSlate, BindFails

LEMMA NextSlate == SlateInv /\ [Next]_vars => SlateInv'
<1> SUFFICES ASSUME SlateInv, [Next]_vars PROVE SlateInv'
  OBVIOUS
<1>1. CASE Host
  BY <1>1, HostSlate
<1>2. CASE Stream
  BY <1>2, StreamSlate
<1>3. CASE Tick
  BY <1>3, TickSlate
<1>4. CASE Community
  BY <1>4, SwitchSlate, BoundSlate, BindFailsSlate DEF Community
<1>5. CASE UNCHANGED vars
  <2>1. NoSnapshotOfPrev'
    BY <1>5, CommunityKept DEF SlateInv, vars
  <2> QED
    BY <1>5, <2>1 DEF SlateInv, CleanSlate, vars, communityVars
<1> QED
  BY <1>1, <1>2, <1>3, <1>4, <1>5 DEF Next

\* The invariant of the save and restore holds in every state.
THEOREM SlateInvariant == Spec => []SlateInv
<1>1. Init => SlateInv
  BY InitSlate
<1>2. SlateInv /\ [Next]_vars => SlateInv'
  BY NextSlate
<1> QED
  BY <1>1, <1>2, PTL DEF Spec

(***************************************************************************)
(* For every set of communities: no frame reaches the stores of a          *)
(* community before it is bound.                                           *)
(***************************************************************************)
THEOREM SlateIsClean == Spec => []CleanSlate
<1>1. SlateInv => CleanSlate
  BY DEF SlateInv
<1> QED
  BY <1>1, SlateInvariant, PTL

\* One step takes a snapshot away only to restore it.
LEMMA StepKeepsSnapshots ==
  ASSUME SlateInv, [Next]_vars, NEW c \in Communities,
         saved[c] # NoSnapshot, saved'[c] # saved[c]
  PROVE  store' = Restored(saved[c][1])
<1>1. CASE UNCHANGED saved
  BY <1>1
<1>2. ASSUME NEW d \in Communities, Switch(d) PROVE FALSE
  BY <1>2, TurnsAssumption DEF Switch, SavePrev, SlateInv, NoSnapshotOfPrev
<1>3. CASE Bound
  <2>1. c = active
    BY <1>3 DEF Bound, SlateInv, NoSnapshotOfPrev
  <2> QED
    BY <1>3, <2>1 DEF Bound
<1>4. Host \/ Stream \/ Tick \/ BindFails \/ UNCHANGED vars => UNCHANGED saved
  BY HostKeeps DEF Stream, EnsureSubscription, Connected, Ingest, SyncAll,
         Tick, BindFails, communityVars, vars
<1> QED
  BY <1>1, <1>2, <1>3, <1>4 DEF Next, Community

(***************************************************************************)
(* For every set of communities and any order of switches, slow binds and  *)
(* failed binds: a saved snapshot is not lost.                             *)
(***************************************************************************)
THEOREM SnapshotsAreKept == Spec => SnapshotNotLost
<1>1. ASSUME SlateInv, [Next]_vars
      PROVE  [\A c \in Communities :
                saved[c] # NoSnapshot /\ saved'[c] # saved[c] =>
                  store' = Restored(saved[c][1])]_vars
  BY <1>1, StepKeepsSnapshots
<1> QED
  BY <1>1, SlateInvariant, PTL DEF Spec, SnapshotNotLost

-----------------------------------------------------------------------------
(* The maps *)

\* The entries of a map, and its keys.
Entries(m) == {m[i] : i \in DOMAIN m}

Keys(m) == {x.turn : x \in Entries(m)}

\* A key is in a map at most once.
Unique(m) == \A i, j \in DOMAIN m : m[i].turn = m[j].turn => i = j

\* The recursion of Sync is well defined: what it computes is the last value of
\* a function that follows it.
LEMMA SyncFold ==
  ASSUME NEW s, NEW b, Len(b) \in Nat
  PROVE  \E g : /\ g = [i \in 0..Len(b) |-> IF i = 0 THEN s ELSE ProcessEvent(g[i - 1], b[i])]
                /\ Sync(s, b) = g[Len(b)]
<1> DEFINE IsFold(g, k) == g = [i \in 0..k |-> IF i = 0 THEN s ELSE ProcessEvent(g[i - 1], b[i])]
           T == {k \in Nat : \E g : IsFold(g, k)}
           f == CHOOSE g : IsFold(g, Len(b))
<1>1. 0 \in T
  <2> DEFINE g == [i \in 0..0 |-> s]
  <2>1. IsFold(g, 0)
    OBVIOUS
  <2> HIDE DEF g, IsFold
  <2> QED
    BY <2>1
<1>2. ASSUME NEW k \in T PROVE k + 1 \in T
  <2>1. PICK g : IsFold(g, k)
    BY <1>2
  <2> DEFINE h == [i \in 0..(k + 1) |-> IF i = k + 1 THEN ProcessEvent(g[k], b[k + 1]) ELSE g[i]]
  <2>2. IsFold(h, k + 1)
    BY <2>1
  <2>3. k + 1 \in Nat
    OBVIOUS
  <2> HIDE DEF h, IsFold
  <2> QED
    BY <2>2, <2>3
<1>3. T = Nat
  <2>1. T \in SUBSET Nat
    OBVIOUS
  <2> HIDE DEF T
  <2> QED
    BY <1>1, <1>2, <2>1, NatSetInduction
<1>4. IsFold(f, Len(b))
  <2> HIDE DEF IsFold
  <2>1. Len(b) \in T
    BY <1>3
  <2> QED
    BY <2>1
<1>5. Sync(s, b) = f[Len(b)]
  BY Zenon DEF Sync
<1> QED
  BY <1>4, <1>5

\* What every event of the buffer carries from one set to the next holds of the fold.
LEMMA SyncInduction ==
  ASSUME NEW s, NEW b, Len(b) \in Nat, NEW T, s \in T[0],
         \A i \in 1..Len(b) : \A x \in T[i - 1] : ProcessEvent(x, b[i]) \in T[i]
  PROVE  Sync(s, b) \in T[Len(b)]
<1>1. PICK g : /\ g = [i \in 0..Len(b) |-> IF i = 0 THEN s ELSE ProcessEvent(g[i - 1], b[i])]
               /\ Sync(s, b) = g[Len(b)]
  BY SyncFold
<1> DEFINE A == {k \in Nat : k <= Len(b) => g[k] \in T[k]}
<1>2. 0 \in A
  BY <1>1
<1>3. ASSUME NEW k \in A PROVE k + 1 \in A
  <2> SUFFICES ASSUME k + 1 <= Len(b) PROVE g[k + 1] \in T[k + 1]
    OBVIOUS
  <2>1. k \in Nat /\ k + 1 \in 1..Len(b) /\ k + 1 \in 0..Len(b) /\ k + 1 # 0 /\ (k + 1) - 1 = k
    OBVIOUS
  <2>2. g[k] \in T[k]
    BY <2>1, k \in A
  <2>3. g[k + 1] = ProcessEvent(g[k], b[k + 1])
    BY <1>1, <2>1
  <2> QED
    BY <2>1, <2>2, <2>3
<1>4. A = Nat
  <2>1. A \in SUBSET Nat
    OBVIOUS
  <2> HIDE DEF A
  <2> QED
    BY <1>2, <1>3, <2>1, NatSetInduction
<1>5. g[Len(b)] \in T[Len(b)]
  <2>1. Len(b) \in A
    BY <1>4
  <2> QED
    BY <2>1
<1> QED
  BY <1>1, <1>5

\* A deletion takes the key away and leaves the rest.
LEMMA WithoutMap ==
  ASSUME NEW S, NEW m \in Seq(S), NEW t
  PROVE  /\ Without(m, t) \in Seq(S)
         /\ Len(Without(m, t)) = IF Has(m, t) THEN Len(m) - 1 ELSE Len(m)
         /\ Entries(Without(m, t)) \subseteq Entries(m)
         /\ Unique(m) => /\ Unique(Without(m, t))
                         /\ \A x \in Entries(Without(m, t)) : x.turn # t
<1> DEFINE at == CHOOSE i \in DOMAIN m : m[i].turn = t
           w == [i \in 1..(Len(m) - 1) |-> IF i < at THEN m[i] ELSE m[i + 1]]
<1>1. CASE ~Has(m, t)
  BY <1>1 DEF Without, Has, Entries
<1>2. CASE Has(m, t)
  <2>1. at \in DOMAIN m /\ m[at].turn = t
    BY <1>2 DEF Has
  <2>2. Without(m, t) = w
    BY <1>2 DEF Without
  <2> HIDE DEF at
  <2>3. /\ Len(m) \in Nat /\ DOMAIN m = 1..Len(m) /\ Len(m) - 1 \in Nat
        /\ \A i \in DOMAIN m : m[i] \in S
    BY <2>1
  <2>4. \A i \in 1..(Len(m) - 1) :
          /\ i \in DOMAIN m /\ i + 1 \in DOMAIN m
          /\ w[i] = IF i < at THEN m[i] ELSE m[i + 1]
    BY <2>3
  <2>5. w \in Seq(S) /\ Len(w) = Len(m) - 1 /\ DOMAIN w = 1..(Len(m) - 1)
    BY <2>3, <2>4
  <2>6. Entries(w) \subseteq Entries(m)
    BY <2>4, <2>5 DEF Entries
  <2>7. ASSUME Unique(m)
        PROVE  Unique(w) /\ \A x \in Entries(w) : x.turn # t
    <3> DEFINE src == [i \in DOMAIN w |-> IF i < at THEN i ELSE i + 1]
    <3>1. /\ \A i \in DOMAIN w : src[i] \in DOMAIN m /\ src[i] # at /\ w[i] = m[src[i]]
          /\ \A i, j \in DOMAIN w : src[i] = src[j] => i = j
      BY <2>1, <2>3, <2>4, <2>5
    <3> HIDE DEF w, src
    <3>2. \A i \in DOMAIN w : w[i].turn # t
      BY <2>1, <2>7, <3>1 DEF Unique
    <3>3. Unique(w)
      BY <2>7, <3>1 DEF Unique
    <3> QED
      BY <3>2, <3>3 DEF Entries
  <2> QED
    BY <1>2, <2>2, <2>5, <2>6, <2>7
<1> QED
  BY <1>1, <1>2

\* A set replaces the entry of its key, or adds one.
LEMMA PutMap ==
  ASSUME NEW S, NEW m \in Seq(S), NEW x \in S
  PROVE  /\ Put(m, x) \in Seq(S)
         /\ Len(Put(m, x)) = IF Has(m, x.turn) THEN Len(m) ELSE Len(m) + 1
         /\ Entries(Put(m, x)) \subseteq {x} \cup {y \in Entries(m) : y.turn # x.turn}
         /\ Unique(m) => Unique(Put(m, x))
<1>1. CASE Has(m, x.turn)
  <2> DEFINE w == [i \in DOMAIN m |-> IF m[i].turn = x.turn THEN x ELSE m[i]]
  <2>1. Put(m, x) = w
    BY <1>1 DEF Put
  <2>2. w \in Seq(S) /\ Len(w) = Len(m) /\ DOMAIN w = DOMAIN m
    OBVIOUS
  <2>3. \A i \in DOMAIN m : w[i] = IF m[i].turn = x.turn THEN x ELSE m[i]
    OBVIOUS
  <2> HIDE DEF w
  <2>4. Entries(w) \subseteq {x} \cup {y \in Entries(m) : y.turn # x.turn}
    BY <2>2, <2>3 DEF Entries
  <2>5. Unique(m) => Unique(w)
    BY <2>2, <2>3 DEF Unique
  <2> QED
    BY <1>1, <2>1, <2>2, <2>4, <2>5
<1>2. CASE ~Has(m, x.turn)
  <2> DEFINE w == Append(m, x)
  <2>1. Put(m, x) = w
    BY <1>2 DEF Put
  <2>2. w \in Seq(S) /\ Len(w) = Len(m) + 1 /\ DOMAIN w = 1..(Len(m) + 1)
    OBVIOUS
  <2>3. \A i \in DOMAIN w : w[i] = IF i = Len(m) + 1 THEN x ELSE m[i]
    OBVIOUS
  <2>4. \A i \in DOMAIN m : m[i].turn # x.turn
    BY <1>2 DEF Has
  <2>5. DOMAIN m = 1..Len(m) /\ Len(m) \in Nat
    OBVIOUS
  <2> HIDE DEF w
  <2>6. Entries(w) \subseteq {x} \cup {y \in Entries(m) : y.turn # x.turn}
    BY <2>2, <2>3, <2>4, <2>5 DEF Entries
  <2>7. Unique(m) => Unique(w)
    BY <2>2, <2>3, <2>4, <2>5 DEF Unique
  <2> QED
    BY <1>2, <2>1, <2>2, <2>6, <2>7
<1> QED
  BY <1>1, <1>2

-----------------------------------------------------------------------------
(* The stores, and what an event does to them *)

Channels == {ChannelOf[t] : t \in Turns}

TurnType == [turn : Turns, channel : Channels, startedAt : Nat, idle : 0..PauseMax]

TombstoneType == [turn : Turns, at : Nat]

\* The frames a host sends: only turn_error may carry no turn id.
Frames == {f \in FrameType : f.turn = None <=> f.kind = "turn_error"}

MapsType == [turns : Seq(TurnType), terminals : Seq(TombstoneType), mark : Frames \cup {NoFrame}]

\* The values the store and its snapshots may have.
Stores ==
  {s \in MapsType :
     /\ Len(s.turns) <= MaxTurns /\ Len(s.terminals) <= MaxTombstones
     /\ Unique(s.turns) /\ Unique(s.terminals)}

\* At the cap there is a turn to evict.
LEMMA FirstStarted ==
  ASSUME NEW m \in Seq(TurnType), Len(m) > 0
  PROVE  \E i \in DOMAIN m :
           \A j \in DOMAIN m :
             /\ m[i].startedAt <= m[j].startedAt
             /\ j < i => m[i].startedAt < m[j].startedAt
<1> DEFINE A == {m[i].startedAt : i \in DOMAIN m}
<1>0. 1 \in DOMAIN m /\ \A i \in DOMAIN m : i \in Nat /\ m[i].startedAt \in Nat
  <2>1. Len(m) \in Nat /\ DOMAIN m = 1..Len(m) /\ \A i \in DOMAIN m : m[i] \in TurnType
    OBVIOUS
  <2> QED
    BY <2>1 DEF TurnType
<1>1. PICK v \in A : \A w \in A : v <= w
  <2>1. A \in SUBSET Nat /\ A # {}
    BY <1>0
  <2> HIDE DEF A
  <2> QED
    BY <2>1, LeastNat
<1> DEFINE B == {i \in DOMAIN m : m[i].startedAt = v}
<1>2. PICK i \in B : \A j \in B : i <= j
  <2>1. B \in SUBSET Nat /\ B # {}
    BY <1>0
  <2> HIDE DEF B
  <2> QED
    BY <2>1, LeastNat
<1>3. ASSUME NEW j \in DOMAIN m
      PROVE  /\ m[i].startedAt <= m[j].startedAt
             /\ j < i => m[i].startedAt < m[j].startedAt
  <2>1. m[i].startedAt = v /\ v <= m[j].startedAt /\ v \in Nat /\ m[j].startedAt \in Nat
    BY <1>0, <1>1
  <2>2. j < i => m[j].startedAt # v
    BY <1>0, <1>2
  <2> QED
    BY <2>1, <2>2
<1> QED
  BY <1>3

\* A start adds its turn within the cap.
LEMMA StartTurnStore ==
  ASSUME NEW s \in Stores, NEW t \in Turns, NEW channel \in Channels, NEW at \in Nat
  PROVE  /\ StartTurn(s, t, channel, at) \in Stores
         /\ StartTurn(s, t, channel, at).mark = s.mark
         /\ StartTurn(s, t, channel, at).terminals = s.terminals
         /\ Keys(StartTurn(s, t, channel, at).turns) \subseteq Keys(s.turns) \cup {t}
<1> DEFINE m == s.turns
           full == Len(m) >= MaxTurns /\ ~Has(m, t)
           first == CHOOSE i \in DOMAIN m :
                      \A j \in DOMAIN m :
                        /\ m[i].startedAt <= m[j].startedAt
                        /\ j < i => m[i].startedAt < m[j].startedAt
           room == IF full THEN Without(m, m[first].turn) ELSE m
           x == [turn |-> t, channel |-> channel, startedAt |-> at, idle |-> 0]
<1>1. m \in Seq(TurnType) /\ Unique(m) /\ Len(m) <= MaxTurns /\ s \in MapsType
  BY DEF Stores, MapsType
<1>2. x \in TurnType
  BY TurnsAssumption DEF TurnType
<1>3. StartTurn(s, t, channel, at) = [s EXCEPT !.turns = Put(room, x)]
  BY Zenon DEF StartTurn
<1>4. room \in Seq(TurnType) /\ Unique(room) /\ Keys(room) \subseteq Keys(m)
  <2>1. Entries(room) \subseteq Entries(m)
    BY <1>1, WithoutMap
  <2>2. Keys(room) \subseteq Keys(m)
    <3> HIDE DEF m, room
    <3> QED
      BY <2>1 DEF Keys
  <2> QED
    BY <1>1, <2>2, WithoutMap
<1>5. Len(Put(room, x)) <= MaxTurns
  <2>1. CASE full
    <3>1. Len(m) > 0
      BY <1>1, <2>1, TurnsAssumption
    <3>2. first \in DOMAIN m
      <4> HIDE DEF m
      <4> QED
        BY <1>1, <3>1, FirstStarted
    <3>3. Has(m, m[first].turn)
      BY <3>2 DEF Has
    <3>4. Len(room) = Len(m) - 1
      BY <1>1, <2>1, <3>3, WithoutMap
    <3>5. Len(Put(room, x)) <= Len(room) + 1
      <4> HIDE DEF room, x
      <4> QED
        BY <1>2, <1>4, PutMap
    <3> QED
      BY <1>1, <3>4, <3>5, TurnsAssumption
  <2>2. CASE ~full
    <3>1. room = m
      BY <2>2
    <3>2. Len(Put(m, x)) = IF Has(m, x.turn) THEN Len(m) ELSE Len(m) + 1
      BY <1>1, <1>2, PutMap
    <3> QED
      BY <1>1, <2>2, <3>1, <3>2, TurnsAssumption
  <2> QED
    BY <2>1, <2>2
<1>6. x.turn = t
  OBVIOUS
<1> HIDE DEF room, x
<1>7. /\ Put(room, x) \in Seq(TurnType) /\ Unique(Put(room, x))
      /\ Entries(Put(room, x)) \subseteq {x} \cup Entries(room)
  BY <1>2, <1>4, PutMap
<1>8. Keys(Put(room, x)) \subseteq Keys(m) \cup {t}
  <2> HIDE DEF m
  <2> QED
    BY <1>4, <1>6, <1>7 DEF Keys
<1> QED
  BY <1>1, <1>3, <1>5, <1>7, <1>8 DEF Stores, MapsType

\* The entry of a key that is there.
LEMMA EntryOf ==
  ASSUME NEW S, NEW m \in Seq(S), NEW t, Has(m, t)
  PROVE  Entry(m, t) \in S /\ Entry(m, t) \in Entries(m) /\ Entry(m, t).turn = t
<1> DEFINE i == CHOOSE i \in DOMAIN m : m[i].turn = t
<1>1. i \in DOMAIN m /\ m[i].turn = t
  BY DEF Has
<1>2. Entry(m, t) = m[i]
  BY DEF Entry
<1> HIDE DEF i
<1>3. m[i] \in S /\ m[i] \in Entries(m)
  BY <1>1 DEF Entries
<1> QED
  BY <1>1, <1>2, <1>3

\* To be in a map is to be one of its keys.
LEMMA HasKey ==
  ASSUME NEW m, NEW t
  PROVE  Has(m, t) <=> t \in Keys(m)
BY DEF Has, Keys, Entries

\* Dropping the oldest entry.
LEMMA TailMap ==
  ASSUME NEW S, NEW m \in Seq(S), Len(m) > 0
  PROVE  /\ Tail(m) \in Seq(S) /\ Len(Tail(m)) = Len(m) - 1
         /\ Entries(Tail(m)) \subseteq Entries(m)
         /\ Unique(m) => Unique(Tail(m))
<1>1. /\ Tail(m) \in Seq(S) /\ Len(Tail(m)) = Len(m) - 1
      /\ \A i \in DOMAIN Tail(m) : i + 1 \in DOMAIN m /\ Tail(m)[i] = m[i + 1] /\ i \in Nat
  OBVIOUS
<1> QED
  BY <1>1 DEF Entries, Unique

\* A tombstone replaces the one of its turn, within the cap.
LEMMA RecordTerminalMap ==
  ASSUME NEW m \in Seq(TombstoneType), Unique(m), Len(m) <= MaxTombstones,
         NEW t \in Turns, NEW at \in Nat
  PROVE  /\ RecordTerminal(m, t, at) \in Seq(TombstoneType)
         /\ Unique(RecordTerminal(m, t, at)) /\ Len(RecordTerminal(m, t, at)) <= MaxTombstones
         /\ \A y \in Entries(RecordTerminal(m, t, at)) :
              y = [turn |-> t, at |-> at] \/ (y \in Entries(m) /\ y.turn # t)
<1> DEFINE x == [turn |-> t, at |-> at]
           all == Put(m, x)
<1>1. x \in TombstoneType /\ x.turn = t
  BY DEF TombstoneType
<1>2. RecordTerminal(m, t, at) = IF Len(all) > MaxTombstones THEN Tail(all) ELSE all
  BY DEF RecordTerminal
<1> HIDE DEF x
<1>3. /\ all \in Seq(TombstoneType) /\ Unique(all) /\ Len(all) <= Len(m) + 1
      /\ Entries(all) \subseteq {x} \cup {y \in Entries(m) : y.turn # t}
  BY <1>1, PutMap
<1> HIDE DEF all
<1>4. CASE Len(all) > MaxTombstones
  <2>1. Len(all) > 0
    BY <1>3, <1>4, TurnsAssumption
  <2>2. /\ Tail(all) \in Seq(TombstoneType) /\ Len(Tail(all)) = Len(all) - 1
        /\ Entries(Tail(all)) \subseteq Entries(all) /\ Unique(Tail(all))
    BY <1>3, <2>1, TailMap
  <2> QED
    BY <1>2, <1>3, <1>4, <2>2, TurnsAssumption DEF x
<1>5. CASE ~(Len(all) > MaxTombstones)
  BY <1>2, <1>3, <1>5, TurnsAssumption DEF x
<1> QED
  BY <1>4, <1>5

\* An end takes off the map the turn whose end it records.
LEMMA EndTurnStore ==
  ASSUME NEW s \in Stores, NEW e \in Frames
  PROVE  /\ EndTurn(s, e) \in Stores
         /\ EndTurn(s, e).mark = s.mark
         /\ \/ EndTurn(s, e) = s
            \/ \E t \in Turns :
                 /\ t = e.turn \/ t \in Keys(s.turns)
                 /\ Keys(EndTurn(s, e).turns) \subseteq Keys(s.turns) \ {t}
                 /\ \A y \in Entries(EndTurn(s, e).terminals) :
                      \/ y = [turn |-> t, at |-> e.at]
                      \/ y \in Entries(s.terminals) /\ y.turn # t
<1> DEFINE m == s.turns
           ofChannel == {i \in DOMAIN m : m[i].channel = e.channel}
           t == IF e.turn # None THEN e.turn
                ELSE m[CHOOSE i \in ofChannel : \A j \in ofChannel : i <= j].turn
           r == [s EXCEPT !.turns = Without(m, t),
                          !.terminals = RecordTerminal(s.terminals, t, e.at)]
<1>0. /\ s \in MapsType /\ m \in Seq(TurnType) /\ s.terminals \in Seq(TombstoneType)
      /\ Unique(m) /\ Unique(s.terminals)
      /\ Len(m) <= MaxTurns /\ Len(s.terminals) <= MaxTombstones
  BY DEF Stores, MapsType
<1>1. CASE e.turn = None /\ ofChannel = {}
  BY <1>1 DEF EndTurn
<1>2. CASE ~(e.turn = None /\ ofChannel = {})
  <2>1. EndTurn(s, e) = r
    BY <1>2, Zenon DEF EndTurn
  <2>2. t \in Turns /\ (t = e.turn \/ t \in Keys(m))
    <3>1. CASE e.turn # None
      BY <3>1 DEF Frames, FrameType
    <3>2. CASE e.turn = None
      <4> DEFINE first == CHOOSE i \in ofChannel : \A j \in ofChannel : i <= j
      <4>1. ofChannel \in SUBSET Nat /\ ofChannel # {} /\ ofChannel \subseteq DOMAIN m
        BY <1>0, <1>2, <3>2
      <4> HIDE DEF ofChannel
      <4>2. first \in ofChannel
        BY <4>1, LeastNat
      <4>3. first \in DOMAIN m
        BY <4>1, <4>2
      <4>4. t = m[first].turn
        BY <3>2
      <4> HIDE DEF first, m
      <4>5. m[first] \in TurnType /\ m[first] \in Entries(m)
        BY <1>0, <4>3 DEF Entries
      <4> QED
        BY <4>4, <4>5 DEF TurnType, Keys
    <3> QED
      BY <3>1, <3>2
  <2>3. e.at \in Nat
    BY TurnsAssumption DEF Frames, FrameType
  <2> HIDE DEF t
  <2>4. /\ Without(m, t) \in Seq(TurnType) /\ Unique(Without(m, t))
        /\ Len(Without(m, t)) <= MaxTurns
        /\ Keys(Without(m, t)) \subseteq Keys(m) \ {t}
    <3>1. /\ Without(m, t) \in Seq(TurnType) /\ Unique(Without(m, t))
          /\ Len(Without(m, t)) <= Len(m)
          /\ Entries(Without(m, t)) \subseteq Entries(m)
          /\ \A x \in Entries(Without(m, t)) : x.turn # t
      BY <1>0, WithoutMap
    <3> HIDE DEF m
    <3> QED
      BY <1>0, <3>1, TurnsAssumption DEF Keys
  <2> DEFINE term == RecordTerminal(s.terminals, t, e.at)
  <2>5. /\ term \in Seq(TombstoneType) /\ Unique(term) /\ Len(term) <= MaxTombstones
        /\ \A y \in Entries(term) :
              y = [turn |-> t, at |-> e.at] \/ (y \in Entries(s.terminals) /\ y.turn # t)
    BY <1>0, <2>2, <2>3, RecordTerminalMap
  <2> HIDE DEF term
  <2>6. /\ r.turns = Without(m, t) /\ r.terminals = term /\ r.mark = s.mark /\ r \in MapsType
    BY <1>0, <2>4, <2>5 DEF MapsType, term
  <2>7. r \in Stores
    BY <2>4, <2>5, <2>6 DEF Stores
  <2> HIDE DEF r, m
  <2> QED
    BY <2>1, <2>2, <2>4, <2>5, <2>6, <2>7 DEF m
<1> QED
  BY <1>1, <1>2

\* A ping adds a turn only where it may resurrect it.
LEMMA HearOfStore ==
  ASSUME NEW s \in Stores, NEW e \in Frames, e.turn # None
  PROVE  /\ HearOf(s, e) \in Stores
         /\ HearOf(s, e).mark = s.mark
         /\ HearOf(s, e).terminals = s.terminals
         /\ \/ Keys(HearOf(s, e).turns) \subseteq Keys(s.turns)
            \/ MayResurrect(s, e) /\ Keys(HearOf(s, e).turns) \subseteq Keys(s.turns) \cup {e.turn}
<1>0. /\ s \in MapsType /\ s.turns \in Seq(TurnType)
      /\ Unique(s.turns) /\ Len(s.turns) <= MaxTurns
  BY DEF Stores, MapsType
<1>1. CASE Has(s.turns, e.turn)
  <2> DEFINE x == [Entry(s.turns, e.turn) EXCEPT !.idle = 0]
             p == Put(s.turns, x)
  <2>1. Entry(s.turns, e.turn) \in TurnType /\ Entry(s.turns, e.turn).turn = e.turn
    BY <1>0, <1>1, EntryOf
  <2>2. x \in TurnType /\ x.turn = e.turn
    BY <2>1, TurnsAssumption DEF TurnType
  <2>3. HearOf(s, e) = [s EXCEPT !.turns = p]
    BY <1>1 DEF HearOf
  <2> HIDE DEF x
  <2>4. /\ p \in Seq(TurnType) /\ Unique(p) /\ Len(p) = Len(s.turns)
        /\ Entries(p) \subseteq {x} \cup Entries(s.turns)
    BY <1>0, <1>1, <2>2, PutMap
  <2>5. e.turn \in Keys(s.turns)
    BY <1>1, HasKey
  <2> HIDE DEF p
  <2>6. Keys(p) \subseteq Keys(s.turns)
    BY <2>2, <2>4, <2>5 DEF Keys
  <2> QED
    BY <1>0, <2>3, <2>4, <2>6 DEF Stores, MapsType
<1>2. CASE ~Has(s.turns, e.turn) /\ MayResurrect(s, e)
  <2>1. HearOf(s, e) = StartTurn(s, e.turn, e.channel, e.began)
    BY <1>2 DEF HearOf
  <2>2. e.turn \in Turns /\ e.channel \in Channels /\ e.began \in Nat
    BY TurnsAssumption DEF Frames, FrameType, Channels
  <2> DEFINE r == StartTurn(s, e.turn, e.channel, e.began)
  <2>3. /\ r \in Stores /\ r.mark = s.mark /\ r.terminals = s.terminals
        /\ Keys(r.turns) \subseteq Keys(s.turns) \cup {e.turn}
    BY <2>2, StartTurnStore
  <2> HIDE DEF r
  <2>4. HearOf(s, e) = r
    BY <2>1 DEF r
  <2> QED
    BY <1>2, <2>3, <2>4
<1>3. CASE ~Has(s.turns, e.turn) /\ ~MayResurrect(s, e)
  BY <1>3 DEF HearOf
<1> QED
  BY <1>1, <1>2, <1>3

\* (timestamp, seq) is a strict total order.
LEMMA AfterOrder ==
  ASSUME NEW e \in Frames \cup {NoFrame}, NEW f \in Frames \cup {NoFrame},
         NEW g \in Frames \cup {NoFrame}
  PROVE  /\ ~After(e, e)
         /\ After(f, e) /\ After(g, f) => After(g, e)
         /\ ~After(e, f) /\ After(g, f) => ~After(e, g)
         /\ ~After(e, f) /\ ~After(f, e) => e.at = f.at /\ e.seq = f.seq
<1>1. \A x \in {e, f, g} : x.at \in Int /\ x.seq \in Int
  BY TurnsAssumption DEF Frames, FrameType, NoFrame, Frame
<1> QED
  BY <1>1 DEF After

\* An event that passes becomes the watermark; another changes nothing.
LEMMA ProcessStore ==
  ASSUME NEW s \in Stores, NEW e \in Frames
  PROVE  /\ ProcessEvent(s, e) \in Stores
         /\ ~Passes(s, e) => ProcessEvent(s, e) = s
         /\ Passes(s, e) => ProcessEvent(s, e).mark = e
<1> DEFINE m == [s EXCEPT !.mark = e]
<1>1. CASE ~Passes(s, e)
  BY <1>1 DEF ProcessEvent
<1>2. CASE Passes(s, e)
  <2>1. m \in Stores /\ m.mark = e
    BY DEF Stores, MapsType
  <2> HIDE DEF m
  <2>2. CASE e.kind = "turn_started"
    <3>1. ProcessEvent(s, e) = StartTurn(m, e.turn, e.channel, e.at)
      BY <1>2, <2>2 DEF ProcessEvent, m
    <3>2. e.turn \in Turns /\ e.channel \in Channels /\ e.at \in Nat
      BY <2>2, TurnsAssumption DEF Frames, FrameType, Channels
    <3> QED
      BY <1>2, <2>1, <3>1, <3>2, StartTurnStore
  <2>3. CASE e.kind \in {"turn_completed", "turn_error"}
    <3>1. ProcessEvent(s, e) = EndTurn(m, e)
      BY <1>2, <2>3 DEF ProcessEvent, m
    <3> QED
      BY <1>2, <2>1, <3>1, EndTurnStore
  <2>4. CASE e.kind = "turn_liveness"
    <3>1. ProcessEvent(s, e) = HearOf(m, e)
      BY <1>2, <2>4 DEF ProcessEvent, m
    <3>2. e.turn # None
      BY <2>4 DEF Frames
    <3> QED
      BY <1>2, <2>1, <3>1, <3>2, HearOfStore
  <2> QED
    BY <2>2, <2>3, <2>4 DEF Frames, FrameType
<1> QED
  BY <1>1, <1>2

\* Frames of a buffer, in their order.
Sorted(b) == \A i, j \in DOMAIN b : i < j => After(b[j], b[i])

\* After a fold the watermark is at or past every frame of the buffer.
LEMMA SyncStore ==
  ASSUME NEW s \in Stores, NEW b \in Seq(Frames)
  PROVE  /\ Sync(s, b) \in Stores
         /\ \A i \in DOMAIN b : ~After(b[i], Sync(s, b).mark)
<1> DEFINE T == [k \in 0..Len(b) |-> {x \in Stores : \A i \in 1..k : ~After(b[i], x.mark)}]
<1>1. Len(b) \in Nat /\ DOMAIN b = 1..Len(b) /\ \A i \in 1..Len(b) : b[i] \in Frames
  OBVIOUS
<1>2. s \in T[0]
  BY <1>1
<1>3. ASSUME NEW k \in 1..Len(b), NEW x \in T[k - 1]
      PROVE  ProcessEvent(x, b[k]) \in T[k]
  <2>0. k - 1 \in 0..Len(b) /\ k \in 0..Len(b)
    BY <1>1
  <2>1. x \in Stores /\ \A i \in 1..(k - 1) : ~After(b[i], x.mark)
    BY <2>0
  <2>2. /\ ProcessEvent(x, b[k]) \in Stores
        /\ ~Passes(x, b[k]) => ProcessEvent(x, b[k]) = x
        /\ Passes(x, b[k]) => ProcessEvent(x, b[k]).mark = b[k]
    BY <1>1, <2>1, ProcessStore
  <2>3. x.mark \in Frames \cup {NoFrame}
    BY <2>1 DEF Stores, MapsType
  <2>4. ASSUME NEW i \in 1..k
        PROVE  ~After(b[i], ProcessEvent(x, b[k]).mark)
    <3>1. b[i] \in Frames /\ b[k] \in Frames /\ (i = k \/ i \in 1..(k - 1))
      BY <1>1
    <3>2. CASE Passes(x, b[k])
      BY <2>1, <2>2, <2>3, <3>1, <3>2, AfterOrder DEF Passes
    <3>3. CASE ~Passes(x, b[k])
      BY <2>1, <2>2, <3>1, <3>3 DEF Passes
    <3> QED
      BY <3>2, <3>3
  <2> QED
    BY <2>0, <2>2, <2>4
<1>4. Sync(s, b) \in T[Len(b)]
  <2> HIDE DEF T
  <2> QED
    BY <1>1, <1>2, <1>3, SyncInduction
<1> QED
  BY <1>1, <1>4

\* What holds of every fold of every buffer of frames.
LEMMA ReplayOfFold ==
  ASSUME NEW s \in Stores, NEW b \in Seq(Frames)
  PROVE  Sync(Sync(s, b), b) = Sync(s, b)
<1> DEFINE once == Sync(s, b)
           T == [k \in 0..Len(b) |-> {once}]
<1>1. Len(b) \in Nat /\ DOMAIN b = 1..Len(b) /\ \A i \in 1..Len(b) : b[i] \in Frames
  OBVIOUS
<1>2. once \in Stores /\ \A i \in DOMAIN b : ~After(b[i], once.mark)
  BY SyncStore
<1> HIDE DEF once
<1>3. ASSUME NEW k \in 1..Len(b), NEW x \in T[k - 1]
      PROVE  ProcessEvent(x, b[k]) \in T[k]
  <2>1. x = once
    BY <1>1
  <2>2. ProcessEvent(once, b[k]) = once
    BY <1>1, <1>2, ProcessStore DEF Passes
  <2> QED
    BY <1>1, <2>1, <2>2
<1>4. once \in T[0]
  BY <1>1
<1>5. Sync(once, b) \in T[Len(b)]
  <2> HIDE DEF T
  <2> QED
    BY <1>1, <1>3, <1>4, SyncInduction
<1> QED
  BY <1>1, <1>5 DEF once

\* The place of a frame that is not held in a sorted buffer.
LEMMA PlaceExists ==
  ASSUME NEW b \in Seq(Frames), Sorted(b), NEW e \in Frames, ~Held(b, e)
  PROVE  \E k \in 0..Len(b) : /\ \A i \in 1..k : After(e, b[i])
                              /\ \A i \in (k + 1)..Len(b) : After(b[i], e)
<1>1. Len(b) \in Nat /\ DOMAIN b = 1..Len(b) /\ \A i \in 1..Len(b) : b[i] \in Frames
  OBVIOUS
<1> DEFINE A == {k \in 0..Len(b) : k < Len(b) => After(b[k + 1], e)}
<1>2. PICK k \in A : \A j \in A : k <= j
  <2>1. A \in SUBSET Nat /\ Len(b) \in A
    BY <1>1
  <2> HIDE DEF A
  <2> QED
    BY <2>1, LeastNat
<1>3. ASSUME NEW i \in 1..k PROVE After(e, b[i])
  <2>1. i - 1 \in 0..Len(b) /\ ~(k <= i - 1) /\ i - 1 < Len(b) /\ (i - 1) + 1 = i /\ i \in 1..Len(b)
    BY <1>1
  <2>2. i - 1 \notin A
    BY <1>2, <2>1
  <2>3. ~After(b[i], e)
    BY <2>1, <2>2
  <2>4. ~(b[i].at = e.at /\ b[i].seq = e.seq)
    BY <1>1, <2>1 DEF Held
  <2> QED
    BY <1>1, <2>1, <2>3, <2>4, AfterOrder
<1>4. ASSUME NEW i \in (k + 1)..Len(b) PROVE After(b[i], e)
  <2>1. k + 1 \in 1..Len(b) /\ i \in 1..Len(b) /\ k < Len(b)
    BY <1>1
  <2>2. After(b[k + 1], e)
    BY <2>1
  <2>3. i = k + 1 \/ k + 1 < i
    BY <2>1
  <2>4. k + 1 < i => After(b[i], b[k + 1])
    BY <1>1, <2>1 DEF Sorted
  <2> QED
    BY <1>1, <2>1, <2>2, <2>3, <2>4, AfterOrder
<1> QED
  BY <1>3, <1>4

\* appendAgentEvent keeps the buffer sorted and within its cap.
LEMMA AppendSorted ==
  ASSUME NEW b \in Seq(Frames), Sorted(b), NEW e \in Frames, ~Held(b, e)
  PROVE  /\ AppendAgentEvent(b, e) \in Seq(Frames)
         /\ Sorted(AppendAgentEvent(b, e))
         /\ Len(AppendAgentEvent(b, e)) <= MaxEvents
         /\ Entries(AppendAgentEvent(b, e)) \subseteq Entries(b) \cup {e}
<1>1. Len(b) \in Nat /\ DOMAIN b = 1..Len(b) /\ \A i \in 1..Len(b) : b[i] \in Frames
  OBVIOUS
<1> DEFINE Place(k) == /\ \A i \in 1..k : After(e, b[i])
                       /\ \A i \in (k + 1)..Len(b) : After(b[i], e)
           before == CHOOSE k \in 0..Len(b) : Place(k)
           sorted == [i \in 1..(Len(b) + 1) |->
                        IF i <= before THEN b[i] ELSE IF i = before + 1 THEN e ELSE b[i - 1]]
           excess == IF Len(sorted) > MaxEvents THEN Len(sorted) - MaxEvents ELSE 0
           r == SubSeq(sorted, excess + 1, Len(sorted))
<1>2. before \in 0..Len(b) /\ Place(before)
  <2>1. \E k \in 0..Len(b) : Place(k)
    BY PlaceExists
  <2> HIDE DEF Place
  <2> QED
    BY <2>1
<1>3. AppendAgentEvent(b, e) = r
  BY Zenon DEF AppendAgentEvent
<1> HIDE DEF before
<1>4. /\ \A i \in 1..(Len(b) + 1) :
            /\ i <= before => i \in 1..Len(b) /\ sorted[i] = b[i]
            /\ i = before + 1 => sorted[i] = e
            /\ i > before + 1 => i - 1 \in 1..Len(b) /\ sorted[i] = b[i - 1]
  BY <1>1, <1>2
<1>5. /\ DOMAIN sorted = 1..(Len(b) + 1)
      /\ sorted \in Seq(Frames) /\ Len(sorted) = Len(b) + 1
  BY <1>1, <1>2
<1> HIDE DEF sorted
<1>6. Sorted(sorted)
  <2> SUFFICES ASSUME NEW i \in 1..(Len(b) + 1), NEW j \in 1..(Len(b) + 1), i < j
               PROVE  After(sorted[j], sorted[i])
    BY <1>5 DEF Sorted
  <2>1. \A x, y \in 1..Len(b) : x < y => After(b[y], b[x])
    BY <1>1 DEF Sorted
  <2>2. CASE j <= before
    BY <1>1, <1>2, <1>4, <2>1, <2>2
  <2>3. CASE j = before + 1
    BY <1>1, <1>2, <1>4, <2>1, <2>3
  <2>4. CASE j > before + 1 /\ i <= before
    <3>1. i < j - 1 /\ i \in 1..Len(b) /\ j - 1 \in 1..Len(b)
      BY <1>1, <1>2, <1>4, <2>4
    <3> QED
      BY <1>1, <1>4, <2>1, <2>4, <3>1
  <2>5. CASE j > before + 1 /\ i = before + 1
    <3>1. j - 1 \in (before + 1)..Len(b)
      BY <1>1, <1>2, <2>5
    <3> QED
      BY <1>1, <1>2, <1>4, <2>5, <3>1
  <2>6. CASE j > before + 1 /\ i > before + 1
    <3>1. i - 1 < j - 1 /\ i - 1 \in 1..Len(b) /\ j - 1 \in 1..Len(b)
      BY <1>1, <1>2, <1>4, <2>6
    <3> QED
      BY <1>1, <1>4, <2>1, <2>6, <3>1
  <2> QED
    BY <1>1, <1>2, <2>2, <2>3, <2>4, <2>5, <2>6
<1>7. Entries(sorted) \subseteq Entries(b) \cup {e}
  <2> SUFFICES ASSUME NEW i \in 1..(Len(b) + 1) PROVE sorted[i] \in Entries(b) \cup {e}
    BY <1>5 DEF Entries
  <2> QED
    BY <1>1, <1>2, <1>4 DEF Entries
<1>8. excess \in 0..Len(sorted) /\ Len(sorted) - excess <= MaxEvents
  BY <1>1, <1>5, TurnsAssumption
<1> HIDE DEF excess
<1>9. /\ r \in Seq(Frames) /\ Len(r) = Len(sorted) - excess
      /\ \A i \in DOMAIN r : /\ i + excess \in DOMAIN sorted /\ r[i] = sorted[i + excess]
                             /\ i \in Int
  BY <1>1, <1>5, <1>8
<1> HIDE DEF r
<1>10. Sorted(r)
  <2> SUFFICES ASSUME NEW i \in DOMAIN r, NEW j \in DOMAIN r, i < j
               PROVE  After(r[j], r[i])
    BY DEF Sorted
  <2>1. i + excess < j + excess
    BY <1>1, <1>5, <1>8, <1>9
  <2> QED
    BY <1>6, <1>9, <2>1 DEF Sorted
<1>11. Entries(r) \subseteq Entries(sorted)
  BY <1>9 DEF Entries
<1> QED
  BY <1>3, <1>7, <1>8, <1>9, <1>10, <1>11

\* The recursion of Unexpired is well defined too.
LEMMA UnexpiredFold ==
  ASSUME NEW m, Len(m) \in Nat
  PROVE  \E g : /\ g = [i \in 0..Len(m) |-> IF i = 0 THEN <<>> ELSE Keep(g[i - 1], m[i])]
                /\ Unexpired(m) = g[Len(m)]
<1> DEFINE IsFold(g, k) == g = [i \in 0..k |-> IF i = 0 THEN <<>> ELSE Keep(g[i - 1], m[i])]
           T == {k \in Nat : \E g : IsFold(g, k)}
           f == CHOOSE g : IsFold(g, Len(m))
<1>1. 0 \in T
  <2> DEFINE g == [i \in 0..0 |-> <<>>]
  <2>1. IsFold(g, 0)
    OBVIOUS
  <2> HIDE DEF g, IsFold
  <2> QED
    BY <2>1
<1>2. ASSUME NEW k \in T PROVE k + 1 \in T
  <2>1. PICK g : IsFold(g, k)
    BY <1>2
  <2> DEFINE h == [i \in 0..(k + 1) |-> IF i = k + 1 THEN Keep(g[k], m[i]) ELSE g[i]]
  <2>2. IsFold(h, k + 1)
    BY <2>1
  <2>3. k + 1 \in Nat
    OBVIOUS
  <2> HIDE DEF h, IsFold
  <2> QED
    BY <2>2, <2>3
<1>3. T = Nat
  <2>1. T \in SUBSET Nat
    OBVIOUS
  <2> HIDE DEF T
  <2> QED
    BY <1>1, <1>2, <2>1, NatSetInduction
<1>4. IsFold(f, Len(m))
  <2> HIDE DEF IsFold
  <2>1. Len(m) \in T
    BY <1>3
  <2> QED
    BY <2>1
<1>5. Unexpired(m) = f[Len(m)]
  BY Zenon DEF Unexpired
<1> QED
  BY <1>4, <1>5

\* A prune only takes turns away.
LEMMA UnexpiredMap ==
  ASSUME NEW m \in Seq(TurnType), Unique(m)
  PROVE  /\ Unexpired(m) \in Seq(TurnType) /\ Unique(Unexpired(m))
         /\ Len(Unexpired(m)) <= Len(m)
         /\ Entries(Unexpired(m)) \subseteq Entries(m)
<1>1. Len(m) \in Nat /\ DOMAIN m = 1..Len(m) /\ \A i \in 1..Len(m) : m[i] \in TurnType
  OBVIOUS
<1>2. PICK g : /\ g = [i \in 0..Len(m) |-> IF i = 0 THEN <<>> ELSE Keep(g[i - 1], m[i])]
               /\ Unexpired(m) = g[Len(m)]
  BY <1>1, UnexpiredFold
<1> DEFINE Upto(k) == {q \in Seq(TurnType) :
                         /\ Len(q) <= k /\ Unique(q)
                         /\ \A i \in DOMAIN q : \E j \in 1..k : q[i] = m[j]}
           A == {k \in Nat : k <= Len(m) => g[k] \in Upto(k)}
<1>3. 0 \in A
  <2>1. g[0] = <<>>
    BY <1>1, <1>2
  <2>2. <<>> \in Upto(0)
    BY DEF Unique
  <2> QED
    BY <2>1, <2>2
<1>4. ASSUME NEW k \in A PROVE k + 1 \in A
  <2> SUFFICES ASSUME k + 1 <= Len(m) PROVE g[k + 1] \in Upto(k + 1)
    OBVIOUS
  <2>1. k \in Nat /\ k + 1 \in 1..Len(m) /\ k + 1 \in 0..Len(m) /\ k + 1 # 0 /\ (k + 1) - 1 = k
    BY <1>1
  <2>2. g[k] \in Upto(k)
    BY <2>1, k \in A
  <2>3. g[k + 1] = IF m[k + 1].idle <= RemoveAfter THEN Append(g[k], m[k + 1]) ELSE g[k]
    BY <1>2, <2>1 DEF Keep
  <2>4. PICK q : q = g[k]
    OBVIOUS
  <2>5. /\ q \in Seq(TurnType) /\ Len(q) <= k /\ Unique(q)
        /\ \A i \in DOMAIN q : \E j \in 1..k : q[i] = m[j]
    BY <2>2, <2>4
  <2>6. q \in Upto(k + 1)
    BY <2>1, <2>5
  <2>7. Append(q, m[k + 1]) \in Upto(k + 1)
    <3> DEFINE r == Append(q, m[k + 1])
    <3>1. /\ r \in Seq(TurnType) /\ Len(r) = Len(q) + 1 /\ DOMAIN r = 1..(Len(q) + 1)
          /\ \A i \in 1..Len(q) : r[i] = q[i]
          /\ r[Len(q) + 1] = m[k + 1]
          /\ DOMAIN q = 1..Len(q) /\ Len(q) \in Nat
      BY <1>1, <2>1, <2>5
    <3> HIDE DEF r
    <3>2. \A i \in DOMAIN q : q[i].turn # m[k + 1].turn
      <4> SUFFICES ASSUME NEW i \in DOMAIN q, q[i].turn = m[k + 1].turn PROVE FALSE
        OBVIOUS
      <4>1. PICK j \in 1..k : q[i] = m[j]
        BY <2>5
      <4>2. j \in DOMAIN m /\ k + 1 \in DOMAIN m /\ j # k + 1
        BY <1>1, <2>1
      <4> QED
        BY <4>1, <4>2 DEF Unique
    <3>3. Unique(r)
      BY <2>5, <3>1, <3>2 DEF Unique
    <3>4. \A i \in DOMAIN r : \E j \in 1..(k + 1) : r[i] = m[j]
      BY <2>1, <2>5, <3>1
    <3>5. Len(r) <= k + 1
      BY <2>1, <2>5, <3>1
    <3>6. r \in Upto(k + 1)
      BY <3>1, <3>3, <3>4, <3>5
    <3> QED
      BY <3>6 DEF r
  <2> QED
    BY <2>3, <2>4, <2>6, <2>7
<1>5. A = Nat
  <2>1. A \in SUBSET Nat
    OBVIOUS
  <2> HIDE DEF A
  <2> QED
    BY <1>3, <1>4, <2>1, NatSetInduction
<1>6. Unexpired(m) \in Upto(Len(m))
  <2>1. Len(m) \in A
    BY <1>1, <1>5
  <2> QED
    BY <1>1, <1>2, <2>1
<1> HIDE DEF A
<1> QED
  BY <1>1, <1>6 DEF Entries

-----------------------------------------------------------------------------
(* The host, the net and the badges *)

\* The turns a store speaks of.
Known(s) == Keys(s.turns) \cup Keys(s.terminals)

\* The host: a turn that is over, and no other, has an end no later than now.
HostInv ==
  /\ host = [clock |-> host.clock, seq |-> host.seq, phase |-> host.phase,
             began |-> host.began, ended |-> host.ended]
  /\ host.clock \in Nat \ {0} /\ host.seq \in Nat
  /\ host.phase \in [Turns -> {"new", "running", "over"}]
  /\ host.began \in [Turns -> 0..MaxClock]
  /\ host.ended \in [Turns -> Nat]
  /\ \A t \in Turns : /\ host.ended[t] <= host.clock
                      /\ host.ended[t] # 0 <=> host.phase[t] = "over"

\* The net: the frame sent next is after all of it, the start of a turn is its
\* first frame, and no frame of a turn is later than the turn's end.
NetInv ==
  /\ net \subseteq Frames /\ IsFiniteSet(net)
  /\ host.seq <= Cardinality(net)
  /\ \A f \in net :
       /\ f.at <= host.clock /\ (f.at = host.clock => f.seq <= host.seq)
       /\ f.turn # None => /\ host.phase[f.turn] # "new"
                           /\ host.ended[f.turn] # 0 => f.at <= host.ended[f.turn]
  /\ \A f, g \in net :
       f.kind = "turn_started" /\ g.turn = f.turn => ~After(f, g)

\* A store tells no lie: the turns it speaks of have started, their start is no
\* longer past the watermark, and a turn that is both shown and recorded as over
\* has a frame later than the recorded end.
Badged ==
  {s \in Stores :
     /\ \A t \in Known(s) : host.phase[t] # "new"
     /\ \A f \in net : f.kind = "turn_started" /\ f.turn \in Known(s) => ~After(f, s.mark)
     /\ \A y \in Entries(s.terminals) :
          y.turn \in Keys(s.turns) => \E f \in net : f.turn = y.turn /\ f.at > y.at}

\* Taking turns away keeps a store truthful.
LEMMA FewerTurns ==
  ASSUME NEW s \in Badged, NEW r \in Stores, r.mark = s.mark, r.terminals = s.terminals,
         Keys(r.turns) \subseteq Keys(s.turns)
  PROVE  r \in Badged
BY DEF Badged, Known

\* The reset store is truthful.
LEMMA EmptyBadged == EmptyStore \in Badged
<1>1. <<>> \in Seq(TurnType) /\ <<>> \in Seq(TombstoneType) /\ Len(<<>>) = 0
  OBVIOUS
<1>2. Entries(<<>>) = {} /\ Keys(<<>>) = {} /\ Unique(<<>>)
  BY DEF Entries, Keys, Unique
<1>3. EmptyStore \in Stores
  BY <1>1, <1>2, TurnsAssumption DEF EmptyStore, Stores, MapsType
<1> QED
  BY <1>2, <1>3 DEF Badged, Known, EmptyStore

\* An event keeps a store truthful.
LEMMA ProcessBadged ==
  ASSUME NetInv, NEW s \in Badged, NEW e \in net
  PROVE  ProcessEvent(s, e) \in Badged
<1>0. SUFFICES ASSUME NEW m, m = [s EXCEPT !.mark = e], NEW r, r = ProcessEvent(s, e)
             PROVE  r \in Badged
  OBVIOUS
<1>1. s \in Stores /\ e \in Frames /\ s \in MapsType /\ s.mark \in Frames \cup {NoFrame}
  BY DEF Badged, NetInv, Stores, MapsType
<1>2. CASE ~Passes(s, e)
  BY <1>0, <1>1, <1>2, ProcessStore
<1>3. CASE Passes(s, e)
  <2>1. /\ m \in Stores /\ m.mark = e /\ m.turns = s.turns /\ m.terminals = s.terminals
        /\ Known(m) = Known(s)
    BY <1>0, <1>1 DEF Stores, MapsType, Known
  <2>2. r \in Stores /\ r.mark = e
    BY <1>0, <1>1, <1>3, ProcessStore
  <2>3. \A f \in net : f.kind = "turn_started" /\ f.turn \in Known(s) => ~After(f, e)
    <3> SUFFICES ASSUME NEW f \in net, f.kind = "turn_started", f.turn \in Known(s)
                 PROVE  ~After(f, e)
      OBVIOUS
    <3>1. ~After(f, s.mark) /\ f \in Frames /\ After(e, s.mark)
      BY <1>3 DEF Badged, NetInv, Passes
    <3> QED
      BY <1>1, <3>1, AfterOrder
  <2>4. \A f \in net : f.kind = "turn_started" /\ f.turn = e.turn => ~After(f, e)
    BY DEF NetInv
  <2>5. e.turn # None => e.turn \in Turns /\ host.phase[e.turn] # "new"
    BY <1>1 DEF NetInv, Frames, FrameType
  \* A start finds no tombstone of its turn: it is the first of its frames.
  <2>6. CASE e.kind = "turn_started"
    <3>1. r = StartTurn(m, e.turn, e.channel, e.at)
      BY <1>0, <1>3, <2>6 DEF ProcessEvent
    <3>2. e.turn \in Turns /\ e.channel \in Channels /\ e.at \in Nat /\ e.turn # None
      BY <1>1, <2>6, TurnsAssumption DEF Frames, FrameType, Channels
    <3>3. r.terminals = s.terminals /\ Keys(r.turns) \subseteq Keys(s.turns) \cup {e.turn}
      <4>1. m \in Stores
        BY <2>1
      <4>2. /\ StartTurn(m, e.turn, e.channel, e.at).terminals = m.terminals
            /\ Keys(StartTurn(m, e.turn, e.channel, e.at).turns) \subseteq Keys(m.turns) \cup {e.turn}
        BY <3>2, <4>1, StartTurnStore
      <4>3. r.terminals = m.terminals /\ Keys(r.turns) \subseteq Keys(m.turns) \cup {e.turn}
        BY <3>1, <4>2, Zenon
      <4> QED
        BY <2>1, <4>3
    <3>4. e.turn \notin Keys(s.terminals)
      BY <1>3, <2>6 DEF Badged, Passes, Known
    <3>5. \A y \in Entries(s.terminals) : y.turn \in Keys(s.terminals)
      BY DEF Keys
    <3> QED
      BY <2>2, <2>3, <2>4, <2>5, <3>2, <3>3, <3>4, <3>5 DEF Badged, Known
  \* An end takes the turn it records off the map.
  <2>7. CASE e.kind \in {"turn_completed", "turn_error"}
    <3>1. r = EndTurn(m, e)
      BY <1>0, <1>3, <2>7 DEF ProcessEvent
    <3>2. CASE r = m
      BY <2>1, <2>2, <2>3, <3>2 DEF Badged
    <3>3. CASE r # m
      <4>1. PICK t \in Turns :
              /\ t = e.turn \/ t \in Keys(s.turns)
              /\ Keys(r.turns) \subseteq Keys(s.turns) \ {t}
              /\ \A y \in Entries(r.terminals) :
                   y = [turn |-> t, at |-> e.at] \/ (y \in Entries(s.terminals) /\ y.turn # t)
        <5>1. m \in Stores /\ e \in Frames
          BY <1>1, <2>1
        <5>2. \/ EndTurn(m, e) = m
              \/ \E t \in Turns :
                   /\ t = e.turn \/ t \in Keys(m.turns)
                   /\ Keys(EndTurn(m, e).turns) \subseteq Keys(m.turns) \ {t}
                   /\ \A y \in Entries(EndTurn(m, e).terminals) :
                        \/ y = [turn |-> t, at |-> e.at]
                        \/ y \in Entries(m.terminals) /\ y.turn # t
          BY <5>1, EndTurnStore
        <5>3. m.turns = s.turns /\ m.terminals = s.terminals
          BY <2>1
        <5> QED
          BY <3>1, <3>3, <5>2, <5>3, Zenon
      <4>2. Keys(r.terminals) \subseteq Keys(s.terminals) \cup {t}
        BY <4>1 DEF Keys
      <4>3. \A u \in Known(r) : u \in Known(s) \/ u = e.turn
        BY <4>1, <4>2 DEF Known
      <4>4. \A u \in Known(r) : host.phase[u] # "new"
        <5>1. t = e.turn => t # None
          BY TurnsAssumption
        <5> QED
          BY <2>5, <4>1, <4>2, <5>1 DEF Known, Badged
      <4>5. \A y \in Entries(r.terminals) :
              y.turn \in Keys(r.turns) => \E f \in net : f.turn = y.turn /\ f.at > y.at
        <5> SUFFICES ASSUME NEW y \in Entries(r.terminals), y.turn \in Keys(r.turns)
                     PROVE  \E f \in net : f.turn = y.turn /\ f.at > y.at
          OBVIOUS
        <5>1. y.turn \in Keys(s.turns) /\ y.turn # t
          BY <4>1
        <5>2. y \in Entries(s.terminals)
          BY <4>1, <5>1
        <5> QED
          BY <5>1, <5>2 DEF Badged
      <4> QED
        BY <2>2, <2>3, <2>4, <4>3, <4>4, <4>5 DEF Badged
    <3> QED
      BY <3>2, <3>3
  \* A ping revives only past the tombstone, and is itself the later frame.
  <2>8. CASE e.kind = "turn_liveness"
    <3>1. r = HearOf(m, e)
      BY <1>0, <1>3, <2>8 DEF ProcessEvent
    <3>2. e.turn # None
      BY <1>1, <2>8 DEF Frames
    <3>3. /\ r.terminals = s.terminals
          /\ \/ Keys(r.turns) \subseteq Keys(s.turns)
             \/ MayResurrect(m, e) /\ Keys(r.turns) \subseteq Keys(s.turns) \cup {e.turn}
      BY <1>1, <2>1, <3>1, <3>2, HearOfStore
    <3>4. CASE Keys(r.turns) \subseteq Keys(s.turns)
      BY <2>2, <2>3, <3>3, <3>4 DEF Badged, Known
    <3>5. CASE MayResurrect(m, e) /\ Keys(r.turns) \subseteq Keys(s.turns) \cup {e.turn}
      <4>1. ASSUME NEW y \in Entries(s.terminals), y.turn = e.turn
            PROVE  e.at > y.at
        <5>1. Has(s.terminals, e.turn)
          BY <4>1 DEF Has, Entries
        <5>2. s.terminals \in Seq(TombstoneType) /\ Unique(s.terminals)
          BY <1>1 DEF Stores, MapsType
        <5>3. Entry(s.terminals, e.turn) \in Entries(s.terminals) /\ Entry(s.terminals, e.turn).turn = e.turn
          BY <5>1, <5>2, EntryOf
        <5>4. Entry(s.terminals, e.turn) = y
          BY <4>1, <5>2, <5>3 DEF Unique, Entries
        <5> QED
          BY <2>1, <3>5, <5>1, <5>4 DEF MayResurrect
      <4>2. \A y \in Entries(s.terminals) :
              y.turn \in Keys(r.turns) => \E f \in net : f.turn = y.turn /\ f.at > y.at
        BY <3>5, <4>1 DEF Badged
      <4>3. \A u \in Known(r) : u \in Known(s) \/ u = e.turn
        BY <3>3, <3>5 DEF Known
      <4>4. \A u \in Known(r) : host.phase[u] # "new"
        BY <2>5, <3>2, <4>3 DEF Badged
      <4> QED
        BY <2>2, <2>3, <2>4, <3>3, <4>2, <4>3, <4>4 DEF Badged
    <3> QED
      BY <3>3, <3>4, <3>5
  <2> QED
    BY <1>1, <2>6, <2>7, <2>8 DEF Frames, FrameType
<1> QED
  BY <1>2, <1>3

\* So does the fold of any buffer of frames that were sent.
LEMMA SyncBadged ==
  ASSUME NetInv, NEW s \in Badged, NEW b \in Seq(Frames), Entries(b) \subseteq net
  PROVE  Sync(s, b) \in Badged
<1> DEFINE T == [k \in 0..Len(b) |-> Badged]
<1>1. Len(b) \in Nat /\ DOMAIN b = 1..Len(b)
  OBVIOUS
<1>2. s \in T[0]
  BY <1>1
<1>3. ASSUME NEW k \in 1..Len(b), NEW x \in T[k - 1]
      PROVE  ProcessEvent(x, b[k]) \in T[k]
  <2>1. x \in Badged /\ T[k] = Badged
    BY <1>1
  <2>2. b[k] \in net
    BY <1>1 DEF Entries
  <2> QED
    BY <2>1, <2>2, ProcessBadged
<1>4. Sync(s, b) \in T[Len(b)]
  <2> HIDE DEF T
  <2> QED
    BY <1>1, <1>2, <1>3, SyncInduction
<1> QED
  BY <1>1, <1>4

\* The entries of a sequence are of its type.
LEMMA EntriesType ==
  ASSUME NEW S, NEW m \in Seq(S)
  PROVE  Entries(m) \subseteq S
BY DEF Entries

\* A store speaks of turns only.
LEMMA KnownTurns ==
  ASSUME NEW s \in Stores
  PROVE  Known(s) \subseteq Turns
<1>1. s.turns \in Seq(TurnType) /\ s.terminals \in Seq(TombstoneType)
  BY DEF Stores, MapsType
<1>2. \A x \in Entries(s.turns) : x.turn \in Turns
  BY <1>1, EntriesType DEF TurnType
<1>3. \A x \in Entries(s.terminals) : x.turn \in Turns
  BY <1>1, EntriesType DEF TombstoneType
<1> QED
  BY <1>2, <1>3 DEF Known, Keys

\* What a frame the host sends is: the first of its turn, or one of a turn that
\* runs, or a ping in the millisecond of the end.
Sendable(kind, t, turnId, at, phase) ==
  /\ t \in Turns /\ turnId \in {t, None} /\ phase \in {"running", "over"}
  /\ kind \in {"turn_started", "turn_liveness", "turn_completed", "turn_error"}
  /\ turnId = None <=> kind = "turn_error"
  /\ kind = "turn_started" <=> host.phase[t] = "new"
  /\ host.phase[t] = "over" => phase = "over" /\ at = host.ended[t]

\* A frame that is sent is after all frames sent before.
LEMMA SendNet ==
  ASSUME HostInv, NetInv, NEW kind, NEW t, NEW turnId, NEW at, NEW phase,
         Sendable(kind, t, turnId, at, phase), Send(kind, t, turnId, at, phase)
  PROVE  HostInv' /\ NetInv' /\ Badged \subseteq Badged'
<1> DEFINE began == IF kind = "turn_started" THEN at ELSE host.began[t]
           new == Frame(at, host.seq + 1, kind, turnId, ChannelOf[t], began)
<1>1. /\ Cardinality(net) < MaxFrames /\ at \in {host.clock, host.clock + 1}
      /\ at \in 1..MaxClock /\ net' = net \cup {new}
      /\ host' = [host EXCEPT !.clock = at, !.seq = @ + 1, !.phase[t] = phase,
                              !.began[t] = began,
                              !.ended[t] = IF phase = "over" /\ @ = 0 THEN at ELSE @]
  BY DEF Send
<1>2. began \in 0..MaxClock
  BY <1>1 DEF HostInv, Sendable
<1> HIDE DEF began
<1>3. /\ host'.clock = at /\ host'.seq = host.seq + 1
      /\ host'.phase = [host.phase EXCEPT ![t] = phase]
      /\ host'.began = [host.began EXCEPT ![t] = began]
      /\ host'.ended = [host.ended EXCEPT ![t] = IF phase = "over" /\ @ = 0 THEN at ELSE @]
      /\ host' = [clock |-> host'.clock, seq |-> host'.seq, phase |-> host'.phase,
                  began |-> host'.began, ended |-> host'.ended]
  BY <1>1 DEF HostInv
<1>4. at \in Nat /\ at # 0 /\ host.clock \in Nat /\ host.clock <= at
  BY <1>1 DEF HostInv
<1>5. HostInv'
  <2>1. host.ended[t] \in Nat /\ t \in Turns /\ host.ended[t] <= at
    BY <1>4 DEF HostInv, Sendable
  <2>2. host'.ended \in [Turns -> Nat]
    BY <1>3, <1>4, <2>1 DEF HostInv
  <2>3. host'.phase \in [Turns -> {"new", "running", "over"}] /\ host'.began \in [Turns -> 0..MaxClock]
    BY <1>2, <1>3, <2>1 DEF HostInv, Sendable
  <2>4. host'.clock \in Nat \ {0} /\ host'.seq \in Nat
    BY <1>3, <1>4 DEF HostInv
  <2>5. ASSUME NEW u \in Turns
        PROVE  host'.ended[u] <= host'.clock /\ (host'.ended[u] # 0 <=> host'.phase[u] = "over")
    <3>1. CASE u # t
      BY <1>3, <1>4, <3>1 DEF HostInv
    <3>2. CASE u = t
      BY <1>3, <1>4, <2>1, <3>2 DEF HostInv, Sendable
    <3> QED
      BY <3>1, <3>2
  <2> QED
    BY <1>3, <2>2, <2>3, <2>4, <2>5 DEF HostInv
<1>6. ASSUME NEW f \in net PROVE f # new /\ After(new, f) /\ f \in Frames
  <2>1. /\ f.at <= host.clock /\ (f.at = host.clock => f.seq <= host.seq)
        /\ f.at \in Int /\ f.seq \in Int /\ host.seq \in Nat /\ f \in Frames
    BY DEF NetInv, HostInv, Frames, FrameType
  <2>2. new.at = at /\ new.seq = host.seq + 1
    BY DEF Frame
  <2> QED
    BY <1>4, <2>1, <2>2 DEF After
<1>7. /\ new.at = at /\ new.seq = host.seq + 1 /\ new.kind = kind /\ new.turn = turnId
      /\ new \in Frames
  <2>1. Cardinality(net) \in Nat /\ host.seq \in Nat /\ host.seq <= Cardinality(net)
    BY FS_CardinalityType DEF NetInv, HostInv
  <2>2. host.seq + 1 \in 1..MaxFrames
    BY <1>1, <2>1, TurnsAssumption
  <2> QED
    BY <1>1, <1>2, <2>2 DEF Frame, Frames, FrameType, Sendable
<1> HIDE DEF new
<1>8. /\ IsFiniteSet(net') /\ host'.seq <= Cardinality(net')
  <2>1. new \notin net
    BY <1>6
  <2>2. IsFiniteSet(net) /\ Cardinality(net) \in Nat /\ host.seq <= Cardinality(net) /\ host.seq \in Nat
    BY FS_CardinalityType DEF NetInv, HostInv
  <2>3. IsFiniteSet(net \cup {new}) /\ Cardinality(net \cup {new}) = Cardinality(net) + 1
    BY <2>1, <2>2, FS_AddElement
  <2> QED
    BY <1>1, <1>3, <2>2, <2>3
\* No frame of a turn that has not started, and none later than the end.
<1>9. \A f \in net : /\ f.at <= host.clock /\ f.at \in Int /\ f.seq \in Int
                     /\ f.turn \in Turns \cup {None}
                     /\ f.turn # None => /\ host.phase[f.turn] # "new"
                                         /\ host.ended[f.turn] # 0 => f.at <= host.ended[f.turn]
  BY DEF NetInv, Frames, FrameType
<1>10. ASSUME NEW f \in net'
       PROVE  /\ f.at <= host'.clock /\ (f.at = host'.clock => f.seq <= host'.seq)
              /\ f.turn # None => /\ host'.phase[f.turn] # "new"
                                  /\ host'.ended[f.turn] # 0 => f.at <= host'.ended[f.turn]
  <2>0. t \in Turns /\ host.ended[t] \in Nat /\ host.phase[t] \in {"new", "running", "over"}
        /\ (host.ended[t] # 0 <=> host.phase[t] = "over") /\ host.seq \in Nat
    BY DEF Sendable, HostInv
  <2>1. CASE f = new
    <3>1. f.at <= host'.clock /\ (f.at = host'.clock => f.seq <= host'.seq)
      BY <1>3, <1>4, <1>7, <2>0, <2>1
    <3>2. f.turn # None => f.turn = t
      BY <1>7, <2>1 DEF Sendable
    <3>3. host'.phase[t] # "new" /\ (host'.ended[t] # 0 => at <= host'.ended[t])
      BY <1>3, <1>4, <2>0 DEF Sendable, HostInv
    <3> QED
      BY <1>7, <2>1, <3>1, <3>2, <3>3
  <2>2. CASE f \in net
    <3>1. f.at <= host'.clock /\ (f.at = host'.clock => f.seq <= host'.seq)
      BY <1>3, <1>4, <1>9, <2>0, <2>2 DEF NetInv
    <3>2. ASSUME f.turn # None
          PROVE  host'.phase[f.turn] # "new" /\ (host'.ended[f.turn] # 0 => f.at <= host'.ended[f.turn])
      <4>1. CASE f.turn # t
        BY <1>3, <1>9, <2>2, <3>2, <4>1 DEF HostInv
      <4>2. CASE f.turn = t
        BY <1>3, <1>4, <1>9, <2>0, <2>2, <3>2, <4>2 DEF Sendable, HostInv
      <4> QED
        BY <4>1, <4>2
    <3> QED
      BY <3>1, <3>2
  <2> QED
    BY <1>1, <2>1, <2>2
<1>11. ASSUME NEW f \in net', NEW g \in net', f.kind = "turn_started", g.turn = f.turn
       PROVE  ~After(f, g)
  <2>1. CASE f \in net /\ g \in net
    BY <1>11, <2>1 DEF NetInv
  <2>2. CASE f \in net /\ g = new
    BY <1>6, <1>7, <2>2, AfterOrder
  <2>3. CASE f = new /\ g = new
    BY <1>7, <2>3, AfterOrder
  <2>4. CASE f = new /\ g \in net
    <3>1. g.turn = t /\ host.phase[t] = "new" /\ t # None
      BY <1>7, <1>11, <2>4, TurnsAssumption DEF Sendable
    <3> QED
      BY <1>9, <2>4, <3>1
  <2> QED
    BY <1>1, <2>1, <2>2, <2>3, <2>4
<1>12. NetInv'
  BY <1>1, <1>6, <1>7, <1>8, <1>10, <1>11 DEF NetInv
<1>13. ASSUME NEW s \in Badged PROVE s \in Badged'
  <2>1. s \in Stores /\ Known(s) \subseteq Turns
    BY KnownTurns DEF Badged
  <2>2. \A u \in Known(s) : host'.phase[u] # "new"
    BY <1>3, <2>1 DEF Badged, HostInv, Sendable
  <2>3. ASSUME NEW f \in net', f.kind = "turn_started", f.turn \in Known(s)
        PROVE  ~After(f, s.mark)
    <3>1. CASE f \in net
      BY <2>3, <3>1 DEF Badged
    <3>2. CASE f = new
      <4>1. f.turn = t /\ host.phase[t] = "new"
        BY <1>7, <2>3, <3>2 DEF Sendable
      <4> QED
        BY <2>3, <4>1 DEF Badged
    <3> QED
      BY <1>1, <3>1, <3>2
  <2>4. \A y \in Entries(s.terminals) :
          y.turn \in Keys(s.turns) => \E f \in net' : f.turn = y.turn /\ f.at > y.at
    BY <1>1 DEF Badged
  <2> QED
    BY <2>1, <2>2, <2>3, <2>4 DEF Badged
<1> QED
  BY <1>5, <1>12, <1>13

\* A crash resets seq, but time goes on.
LEMMA CrashNet ==
  ASSUME HostInv, NetInv, HostCrashes
  PROVE  HostInv' /\ NetInv' /\ Badged \subseteq Badged'
<1>1. /\ net' = net /\ host'.clock = host.clock + 1 /\ host'.seq = 0 /\ host'.began = host.began
      /\ host'.phase = [t \in Turns |-> IF host.phase[t] = "running" THEN "over" ELSE host.phase[t]]
      /\ host'.ended = [t \in Turns |-> IF host.phase[t] = "running" THEN host.clock ELSE host.ended[t]]
      /\ host' = [clock |-> host'.clock, seq |-> host'.seq, phase |-> host'.phase,
                  began |-> host'.began, ended |-> host'.ended]
  BY DEF HostCrashes, HostInv
<1>2. HostInv'
  <2>1. host'.ended \in [Turns -> Nat] /\ host'.phase \in [Turns -> {"new", "running", "over"}]
    BY <1>1 DEF HostInv
  <2>2. ASSUME NEW t \in Turns
        PROVE  host'.ended[t] <= host'.clock /\ (host'.ended[t] # 0 <=> host'.phase[t] = "over")
    BY <1>1 DEF HostInv
  <2>3. host'.clock \in Nat \ {0} /\ host'.seq \in Nat /\ host'.began \in [Turns -> 0..MaxClock]
    BY <1>1 DEF HostInv
  <2> QED
    BY <1>1, <2>1, <2>2, <2>3 DEF HostInv
<1>3. NetInv'
  <2>1. host'.seq <= Cardinality(net')
    BY <1>1, FS_CardinalityType DEF NetInv
  <2>2. ASSUME NEW f \in net
        PROVE  /\ f.at <= host'.clock /\ (f.at = host'.clock => f.seq <= host'.seq)
               /\ f.turn # None => /\ host'.phase[f.turn] # "new"
                                   /\ host'.ended[f.turn] # 0 => f.at <= host'.ended[f.turn]
    <3>1. f.at \in Int /\ f.at <= host.clock /\ f.turn \in Turns \cup {None} /\ host.clock \in Nat
      BY DEF NetInv, HostInv, Frames, FrameType
    <3>2. f.at # host'.clock /\ f.at <= host'.clock
      BY <1>1, <3>1
    <3>3. ASSUME f.turn # None
          PROVE  host'.phase[f.turn] # "new" /\ (host'.ended[f.turn] # 0 => f.at <= host'.ended[f.turn])
      BY <1>1, <3>1, <3>3 DEF NetInv, HostInv
    <3> QED
      BY <3>2, <3>3
  <2> QED
    BY <1>1, <2>1, <2>2 DEF NetInv
<1>4. ASSUME NEW s \in Badged PROVE s \in Badged'
  <2>1. s \in Stores /\ Known(s) \subseteq Turns
    BY KnownTurns DEF Badged
  <2> QED
    BY <1>1, <2>1 DEF Badged
<1> QED
  BY <1>2, <1>3, <1>4

\* Nothing the host does makes a truthful store untruthful.
LEMMA HostNet == HostInv /\ NetInv /\ Host => HostInv' /\ NetInv' /\ Badged \subseteq Badged'
<1> SUFFICES ASSUME HostInv, NetInv, Host PROVE HostInv' /\ NetInv' /\ Badged \subseteq Badged'
  OBVIOUS
<1>1. ASSUME NEW t \in Turns, NEW at, HostStarts(t, at)
      PROVE  HostInv' /\ NetInv' /\ Badged \subseteq Badged'
  <2>1. Sendable("turn_started", t, t, at, "running")
    BY <1>1, TurnsAssumption DEF HostStarts, Sendable
  <2> QED
    BY <1>1, <2>1, SendNet DEF HostStarts
<1>2. ASSUME NEW t \in Turns, NEW at, HostPings(t, at)
      PROVE  HostInv' /\ NetInv' /\ Badged \subseteq Badged'
  <2>1. Sendable("turn_liveness", t, t, at, "running")
    BY <1>2, TurnsAssumption DEF HostPings, Sendable
  <2> QED
    BY <1>2, <2>1, SendNet DEF HostPings
<1>3. ASSUME NEW t \in Turns, NEW at, HostCompletes(t, at)
      PROVE  HostInv' /\ NetInv' /\ Badged \subseteq Badged'
  <2>1. Sendable("turn_completed", t, t, at, "over")
    BY <1>3, TurnsAssumption DEF HostCompletes, Sendable
  <2> QED
    BY <1>3, <2>1, SendNet DEF HostCompletes
<1>4. ASSUME NEW t \in Turns, NEW at, HostPanics(t, at)
      PROVE  HostInv' /\ NetInv' /\ Badged \subseteq Badged'
  <2>1. Sendable("turn_error", t, None, at, "over")
    BY <1>4, TurnsAssumption DEF HostPanics, Sendable
  <2> QED
    BY <1>4, <2>1, SendNet DEF HostPanics
<1>5. ASSUME NEW t \in Turns, HostPingsLate(t)
      PROVE  HostInv' /\ NetInv' /\ Badged \subseteq Badged'
  <2>1. Sendable("turn_liveness", t, t, host.clock, "over")
    BY <1>5, TurnsAssumption DEF HostPingsLate, Sendable
  <2> QED
    BY <1>5, <2>1, SendNet DEF HostPingsLate
<1> QED
  BY <1>1, <1>2, <1>3, <1>4, <1>5, CrashNet DEF Host

-----------------------------------------------------------------------------
(* The inductive invariant *)

\* The stores, live and saved, are truthful, and the buffer is sorted.
TurnsInv ==
  /\ HostInv /\ NetInv
  /\ buffer \in Seq(Frames) /\ Sorted(buffer) /\ Len(buffer) <= MaxEvents
  /\ Entries(buffer) \subseteq net
  /\ store \in Badged
  /\ \A c \in Communities : saved[c] # NoSnapshot => saved[c][1] \in Badged
  /\ binding \in BOOLEAN /\ mounted \in BOOLEAN
  /\ switches \in 0..MaxSwitches
  /\ stream \in {"idle", "connecting", "open", "error"}

\* Ageing and restoring change only the idle counters.
LEMMA IdleOnly ==
  ASSUME NEW s \in Badged, NEW m \in Seq(TurnType), Len(m) = Len(s.turns),
         \A i \in DOMAIN m : m[i].turn = s.turns[i].turn
  PROVE  [s EXCEPT !.turns = m] \in Badged /\ Unique(m)
<1>1. /\ s \in Stores /\ s \in MapsType /\ s.turns \in Seq(TurnType) /\ Unique(s.turns)
  BY DEF Badged, Stores, MapsType
<1>2. DOMAIN m = DOMAIN s.turns /\ Unique(m)
  BY <1>1 DEF Unique
<1>3. Keys(m) \subseteq Keys(s.turns)
  BY <1>2 DEF Keys, Entries
<1>4. /\ [s EXCEPT !.turns = m] \in Stores
      /\ [s EXCEPT !.turns = m].turns = m
      /\ [s EXCEPT !.turns = m].terminals = s.terminals /\ [s EXCEPT !.turns = m].mark = s.mark
  BY <1>1, <1>2 DEF Stores, MapsType
<1> QED
  BY <1>2, <1>3, <1>4, FewerTurns

\* Ageing keeps the turns.
LEMMA OlderMap ==
  ASSUME NEW m \in Seq(TurnType)
  PROVE  /\ Older(m) \in Seq(TurnType) /\ Len(Older(m)) = Len(m)
         /\ \A i \in DOMAIN Older(m) : Older(m)[i].turn = m[i].turn
<1>1. ASSUME NEW i \in DOMAIN m
      PROVE  /\ [m[i] EXCEPT !.idle = IF @ < PauseMax THEN @ + 1 ELSE @] \in TurnType
             /\ [m[i] EXCEPT !.idle = IF @ < PauseMax THEN @ + 1 ELSE @].turn = m[i].turn
  <2> DEFINE v == IF m[i].idle < PauseMax THEN m[i].idle + 1 ELSE m[i].idle
  <2>1. m[i] \in TurnType
    OBVIOUS
  <2>2. v \in 0..PauseMax
    BY <2>1, TurnsAssumption DEF TurnType
  <2> HIDE DEF v
  <2>3. [m[i] EXCEPT !.idle = v] \in TurnType /\ [m[i] EXCEPT !.idle = v].turn = m[i].turn
    BY <2>1, <2>2 DEF TurnType
  <2> QED
    BY <2>3 DEF v
<1> DEFINE o == [i \in DOMAIN m |-> [m[i] EXCEPT !.idle = IF @ < PauseMax THEN @ + 1 ELSE @]]
<1>2. Len(m) \in Nat /\ DOMAIN m = 1..Len(m)
  OBVIOUS
<1>3. \A i \in 1..Len(m) : o[i] \in TurnType /\ o[i].turn = m[i].turn
  BY <1>1, <1>2
<1>4. o = [i \in 1..Len(m) |-> o[i]]
  BY <1>2
<1>5. Older(m) = o
  BY DEF Older
<1> HIDE DEF o
<1>6. o \in Seq(TurnType) /\ Len(o) = Len(m) /\ DOMAIN o = 1..Len(m)
  BY <1>2, <1>3, <1>4
<1> QED
  BY <1>3, <1>5, <1>6

\* A restored snapshot is truthful.
LEMMA RestoredBadged ==
  ASSUME NEW s \in Badged
  PROVE  Restored(s) \in Badged
<1> DEFINE m == [i \in DOMAIN s.turns |-> [s.turns[i] EXCEPT !.idle = 0]]
<1>1. s.turns \in Seq(TurnType)
  BY DEF Badged, Stores, MapsType
<1>2. ASSUME NEW i \in DOMAIN s.turns
      PROVE  /\ [s.turns[i] EXCEPT !.idle = 0] \in TurnType
             /\ [s.turns[i] EXCEPT !.idle = 0].turn = s.turns[i].turn
  <2>1. s.turns[i] \in TurnType
    BY <1>1
  <2> QED
    BY <2>1, TurnsAssumption DEF TurnType
<1>3. /\ m \in Seq(TurnType) /\ Len(m) = Len(s.turns)
      /\ \A i \in DOMAIN m : m[i].turn = s.turns[i].turn
  <2>1. Len(s.turns) \in Nat /\ DOMAIN s.turns = 1..Len(s.turns)
    BY <1>1
  <2>2. \A i \in 1..Len(s.turns) : m[i] \in TurnType /\ m[i].turn = s.turns[i].turn
    BY <1>2, <2>1
  <2>3. m = [i \in 1..Len(s.turns) |-> m[i]]
    BY <2>1
  <2> HIDE DEF m
  <2>4. m \in Seq(TurnType) /\ Len(m) = Len(s.turns) /\ DOMAIN m = 1..Len(s.turns)
    BY <2>1, <2>2, <2>3
  <2> QED
    BY <2>2, <2>4
<1>4. Restored(s) = [s EXCEPT !.turns = m]
  BY DEF Restored
<1> HIDE DEF m
<1> QED
  BY <1>3, <1>4, IdleOnly

\* A prune interval keeps the store truthful.
LEMMA TickBadged ==
  ASSUME NEW s \in Badged
  PROVE  /\ [s EXCEPT !.turns = Older(s.turns)] \in Badged
         /\ [s EXCEPT !.turns = PruneExpired(Older(s.turns))] \in Badged
<1> DEFINE m == Older(s.turns)
           r == [s EXCEPT !.turns = m]
<1>1. s \in MapsType /\ s.turns \in Seq(TurnType)
  BY DEF Badged, Stores, MapsType
<1>2. /\ m \in Seq(TurnType) /\ Len(m) = Len(s.turns)
      /\ \A i \in DOMAIN m : m[i].turn = s.turns[i].turn
  BY <1>1, OlderMap
<1> HIDE DEF m
<1>3. r \in Badged /\ Unique(m)
  BY <1>2, IdleOnly
<1>4. CASE ShouldPausePrune(m)
  BY <1>3, <1>4 DEF PruneExpired, m
<1>5. CASE ~ShouldPausePrune(m)
  <2> DEFINE u == Unexpired(m)
             q == [s EXCEPT !.turns = u]
  <2>1. /\ u \in Seq(TurnType) /\ Unique(u) /\ Len(u) <= Len(m) /\ Entries(u) \subseteq Entries(m)
    BY <1>2, <1>3, UnexpiredMap
  <2>2. PruneExpired(m) = u
    BY <1>5 DEF PruneExpired
  <2> HIDE DEF u
  <2>3. Keys(u) \subseteq Keys(m)
    BY <2>1 DEF Keys
  <2>4. /\ q.turns = u /\ q.terminals = s.terminals /\ q.mark = s.mark /\ q \in MapsType
        /\ r.turns = m /\ r.terminals = s.terminals /\ r.mark = s.mark
    BY <1>1, <2>1 DEF MapsType
  <2>5. q \in Stores
    <3>1. /\ Len(s.turns) <= MaxTurns /\ Len(s.terminals) <= MaxTombstones /\ Unique(s.terminals)
      BY DEF Badged, Stores
    <3>2. Len(u) <= MaxTurns
      BY <1>1, <1>2, <2>1, <3>1, TurnsAssumption
    <3> QED
      BY <2>1, <2>4, <3>1, <3>2 DEF Stores
  <2> HIDE DEF q, r
  <2>6. q \in Badged
    BY <1>3, <2>3, <2>4, <2>5, FewerTurns
  <2> QED
    BY <1>3, <2>2, <2>6 DEF m, q, r
<1> QED
  BY <1>4, <1>5

LEMMA InitTurns == Init => TurnsInv
<1> SUFFICES ASSUME Init PROVE TurnsInv
  OBVIOUS
<1>1. HostInv
  BY TurnsAssumption DEF Init, HostInv
<1>2. NetInv
  BY FS_EmptySet DEF Init, NetInv
<1>3. buffer \in Seq(Frames) /\ Sorted(buffer) /\ Len(buffer) <= MaxEvents /\ Entries(buffer) \subseteq net
  BY TurnsAssumption DEF Init, Sorted, Entries
<1>4. store \in Badged
  BY EmptyBadged DEF Init
<1>5. /\ \A c \in Communities : saved[c] = NoSnapshot
      /\ binding = TRUE /\ mounted = FALSE /\ switches = 0 /\ stream = "idle"
  BY DEF Init
<1>6. 0 \in 0..MaxSwitches
  BY TurnsAssumption
<1> QED
  BY <1>1, <1>2, <1>3, <1>4, <1>5, <1>6 DEF TurnsInv

LEMMA HostTurns == TurnsInv /\ Host => TurnsInv'
<1> SUFFICES ASSUME TurnsInv, Host PROVE TurnsInv'
  OBVIOUS
<1>1. HostInv' /\ NetInv' /\ Badged \subseteq Badged'
  BY HostNet DEF TurnsInv
<1>2. UNCHANGED <<buffer, store, communityVars, stream>>
  BY HostKeeps
<1>3. net \subseteq net'
  <2>1. ASSUME NEW kind, NEW t, NEW turnId, NEW at, NEW phase, Send(kind, t, turnId, at, phase)
        PROVE  net \subseteq net'
    BY <2>1 DEF Send
  <2> QED
    BY <2>1 DEF Host, HostStarts, HostPings, HostCompletes, HostPanics, HostPingsLate, HostCrashes
<1>4. Sorted(buffer)' /\ (Entries(buffer) \subseteq net)'
  BY <1>2, <1>3 DEF TurnsInv, Sorted, Entries
<1> QED
  BY <1>1, <1>2, <1>4 DEF TurnsInv, communityVars

\* The steps that leave the host and the net alone.
LEMMA SameNet ==
  ASSUME TurnsInv, UNCHANGED <<host, net>>
  PROVE  HostInv' /\ NetInv' /\ Badged' = Badged
BY DEF TurnsInv, HostInv, NetInv, Badged

LEMMA StreamTurns == TurnsInv /\ Stream => TurnsInv'
<1> SUFFICES ASSUME TurnsInv, Stream PROVE TurnsInv'
  OBVIOUS
<1>1. HostInv' /\ NetInv' /\ Badged' = Badged
  BY SameNet DEF Stream, EnsureSubscription, Connected, Ingest, SyncAll
<1>2. UNCHANGED <<net, communityVars>>
  BY DEF Stream, EnsureSubscription, Connected, Ingest, SyncAll
<1>3. CASE EnsureSubscription \/ \E outcome \in {"open", "error"} : Connected(outcome)
  <2>1. UNCHANGED <<buffer, store>> /\ stream' \in {"idle", "connecting", "open", "error"}
    BY <1>3 DEF EnsureSubscription, Connected
  <2> QED
    BY <1>1, <1>2, <2>1 DEF TurnsInv, communityVars, Sorted, Entries
<1>4. ASSUME NEW f \in net, NEW listed \in BOOLEAN, Ingest(f, listed)
      PROVE  TurnsInv'
  <2>1. f \in Frames /\ ~Held(buffer, f) /\ buffer' = AppendAgentEvent(buffer, f) /\ UNCHANGED stream
    BY <1>4 DEF Ingest, TurnsInv, NetInv
  <2>2. /\ buffer' \in Seq(Frames) /\ Sorted(buffer') /\ Len(buffer') <= MaxEvents
        /\ Entries(buffer') \subseteq net
    <3>1. LET r == AppendAgentEvent(buffer, f)
          IN /\ r \in Seq(Frames) /\ Sorted(r) /\ Len(r) <= MaxEvents
             /\ Entries(r) \subseteq Entries(buffer) \cup {f}
      BY <2>1, AppendSorted DEF TurnsInv
    <3> QED
      BY <2>1, <3>1 DEF TurnsInv
  <2>3. store' \in Badged
    BY <1>4, <2>2, SyncBadged DEF Ingest, TurnsInv
  <2> QED
    BY <1>1, <1>2, <2>1, <2>2, <2>3 DEF TurnsInv, communityVars, Sorted, Entries
<1>5. CASE SyncAll
  <2>1. store' \in Badged
    BY <1>5, SyncBadged DEF SyncAll, TurnsInv
  <2> QED
    BY <1>1, <1>2, <1>5, <2>1 DEF SyncAll, TurnsInv, communityVars, Sorted, Entries
<1> QED
  BY <1>3, <1>4, <1>5 DEF Stream

LEMMA TickTurns == TurnsInv /\ Tick => TurnsInv'
<1> SUFFICES ASSUME TurnsInv, Tick PROVE TurnsInv'
  OBVIOUS
<1>1. HostInv' /\ NetInv' /\ Badged' = Badged
  BY SameNet DEF Tick
<1>2. store' \in Badged
  BY TickBadged DEF Tick, TurnsInv
<1> QED
  BY <1>1, <1>2 DEF Tick, TurnsInv, communityVars, Sorted, Entries

LEMMA CommunityTurns == SlateInv /\ TurnsInv /\ Community => TurnsInv'
<1> SUFFICES ASSUME SlateInv, TurnsInv, Community PROVE TurnsInv'
  OBVIOUS
<1>1. HostInv' /\ NetInv' /\ Badged' = Badged
  BY SameNet DEF Community, Switch, Bound, BindFails
<1>2. ASSUME NEW c \in Communities, Switch(c) PROVE TurnsInv'
  <2>1. buffer' = <<>> /\ store' = EmptyStore /\ stream' = "idle" /\ UNCHANGED net
    BY <1>2 DEF Switch, ResetCommunityState
  <2>2. buffer' \in Seq(Frames) /\ Sorted(buffer') /\ Len(buffer') <= MaxEvents
        /\ Entries(buffer') \subseteq net'
    BY <2>1, TurnsAssumption DEF Sorted, Entries
  <2>3. store' \in Badged
    BY <2>1, EmptyBadged
  <2>4. ASSUME NEW d \in Communities, saved'[d] # NoSnapshot PROVE saved'[d][1] \in Badged
    <3>1. saved'[d] = saved[d] \/ saved'[d] = Snapshot(store)
      BY <1>2 DEF Switch, SavePrev, SlateInv, NoSnapshotOfPrev
    <3> QED
      BY <2>4, <3>1 DEF TurnsInv, Snapshot
  <2>5. switches' \in 0..MaxSwitches /\ mounted' = FALSE /\ binding' = TRUE
    BY <1>2, TurnsAssumption DEF TurnsInv, Switch
  <2>6. stream' \in {"idle", "connecting", "open", "error"}
    BY <2>1
  <2> QED
    BY <1>1, <2>2, <2>3, <2>4, <2>5, <2>6 DEF TurnsInv
<1>3. CASE Bound
  <2>1. store' \in Badged
    BY <1>3, RestoredBadged DEF Bound, TurnsInv, SlateInv, NoSnapshotOfPrev
  <2>2. ASSUME NEW d \in Communities, saved'[d] # NoSnapshot PROVE saved'[d][1] \in Badged
    BY <1>3, <2>2 DEF Bound, TurnsInv, SlateInv, NoSnapshotOfPrev
  <2> QED
    BY <1>1, <1>3, <2>1, <2>2 DEF Bound, TurnsInv, Sorted, Entries
<1>4. CASE BindFails
  BY <1>1, <1>4 DEF BindFails, TurnsInv, Sorted, Entries
<1> QED
  BY <1>2, <1>3, <1>4 DEF Community

\* Every step keeps the invariant.
LEMMA NextTurns == SlateInv /\ TurnsInv /\ [Next]_vars => TurnsInv'
<1> SUFFICES ASSUME SlateInv, TurnsInv, [Next]_vars PROVE TurnsInv'
  OBVIOUS
<1>1. CASE UNCHANGED vars
  BY <1>1 DEF vars, communityVars, TurnsInv, HostInv, NetInv, Badged, Sorted, Entries
<1> QED
  BY <1>1, HostTurns, StreamTurns, TickTurns, CommunityTurns DEF Next

\* The invariant of the stores holds in every state.
THEOREM TurnsInvariant == Spec => []TurnsInv
<1>1. Init => TurnsInv
  BY InitTurns
<1>2. SlateInv /\ TurnsInv /\ [Next]_vars => TurnsInv'
  BY NextTurns
<1> QED
  BY <1>1, <1>2, SlateInvariant, PTL DEF Spec

\* A store of that set has the type the runs check.
LEMMA StoresTyped ==
  ASSUME NEW s \in Stores
  PROVE  StoreType(s)
<1>1. /\ s \in MapsType /\ s.turns \in Seq(TurnType) /\ s.terminals \in Seq(TombstoneType)
      /\ s.mark \in FrameType \cup {NoFrame}
  BY DEF Stores, MapsType, Frames
<1>2. ASSUME NEW i \in DOMAIN s.turns
      PROVE  s.turns[i].turn \in Turns /\ s.turns[i].idle \in 0..PauseMax
  <2>1. s.turns[i] \in TurnType
    BY <1>1
  <2> QED
    BY <2>1 DEF TurnType
<1>3. ASSUME NEW i \in DOMAIN s.terminals
      PROVE  s.terminals[i].turn \in Turns
  <2>1. s.terminals[i] \in TombstoneType
    BY <1>1
  <2> QED
    BY <2>1 DEF TombstoneType
<1>4. DOMAIN s = {"turns", "terminals", "mark"}
  BY <1>1 DEF MapsType
<1> QED
  BY <1>1, <1>2, <1>3, <1>4 DEF StoreType, Stores, Unique

(***************************************************************************)
(* For every number of turns, frames and communities and every value of    *)
(* the caps: the variables have their types, no map outgrows its cap or    *)
(* holds a key twice, and the buffer stays in the (timestamp, seq) order.  *)
(***************************************************************************)
THEOREM TurnsTypeInvariant == Spec => []TypeOK
<1>1. SlateInv /\ TurnsInv => TypeOK
  <2> SUFFICES ASSUME SlateInv, TurnsInv PROVE TypeOK
    OBVIOUS
  <2>1. net \subseteq FrameType
    BY DEF TurnsInv, NetInv, Frames
  <2>2. \A i, j \in DOMAIN buffer : buffer[i] \in net /\ (i < j => After(buffer[j], buffer[i]))
    BY DEF TurnsInv, Entries, Sorted
  <2>3. StoreType(store) /\ \A c \in Communities : saved[c] # NoSnapshot => StoreType(saved[c][1])
    BY StoresTyped DEF TurnsInv, Badged
  <2> QED
    BY <2>1, <2>2, <2>3 DEF TypeOK, TurnsInv, SlateInv, NoSnapshotOfPrev
<1> QED
  BY <1>1, SlateInvariant, TurnsInvariant, PTL

(***************************************************************************)
(* For every host, order of frames, buffer and change of community: the    *)
(* badge of a turn whose end is recorded comes back only for a turn that   *)
(* went on after the recorded end.  A start cannot follow the tombstone of *)
(* its turn past the watermark, and a ping revives only with a later       *)
(* timestamp, which no frame has once the turn has ended.                  *)
(***************************************************************************)
THEOREM NoBadgeOfTheDead == Spec => []NoDeadBadge
<1>1. TurnsInv => NoDeadBadge
  <2> SUFFICES ASSUME TurnsInv, NEW t \in Shown, Has(store.terminals, t), host.ended[t] # 0
               PROVE  Entry(store.terminals, t).at < host.ended[t]
    BY DEF NoDeadBadge
  <2> DEFINE y == Entry(store.terminals, t)
  <2>1. store \in Stores /\ store.terminals \in Seq(TombstoneType)
    BY DEF TurnsInv, Badged, Stores, MapsType
  <2>2. y \in TombstoneType /\ y \in Entries(store.terminals) /\ y.turn = t
    BY <2>1, EntryOf
  <2> HIDE DEF y
  <2>3. t \in Keys(store.turns) /\ t \in Turns
    <3>1. t \in Keys(store.turns)
      BY DEF Shown, Keys, Entries
    <3> QED
      BY <2>1, <3>1, KnownTurns DEF Known
  <2>4. PICK f \in net : f.turn = t /\ f.at > y.at
    BY <2>2, <2>3 DEF TurnsInv, Badged
  <2>5. t # None
    BY <2>3, TurnsAssumption
  <2>6. f.at <= host.ended[t] /\ f.at \in Int /\ host.ended[t] \in Int
    BY <2>3, <2>4, <2>5 DEF TurnsInv, NetInv, HostInv, Frames, FrameType
  <2> QED
    BY <2>2, <2>4, <2>6 DEF TombstoneType, y
<1> QED
  BY <1>1, TurnsInvariant, PTL

(***************************************************************************)
(* For every buffer and every store: folding the same buffer again changes *)
(* nothing.  The watermark ends at or past every frame of the buffer.      *)
(***************************************************************************)
THEOREM ReplayChangesNothing == Spec => []ReplayIsIdle
<1>1. TurnsInv => ReplayIsIdle
  BY ReplayOfFold DEF TurnsInv, Badged, ReplayIsIdle
<1> QED
  BY <1>1, TurnsInvariant, PTL

=============================================================================
