------------------------- MODULE CausalHandoffProofs -------------------------
(***************************************************************************)
(* Theorems about the causal handoff, for every number of rows, launches,  *)
(* backoffs and every set of policies.                                     *)
(***************************************************************************)
EXTENDS CausalHandoff, TLAPS

\* A file that harness or desktop writes has the shape of a handoff file.
LEMMA EntryType ==
  /\ Absent \in Entries
  /\ \A v \in {1, 2}, n \in Nonces, s \in {"pending", "claimed", "executing"} :
       Entry(v, n, s) \in Entries
BY DEF Absent, Entry, Entries

\* Replacing one file keeps the handoff directory's shape.
LEMMA EntryUpdate ==
  ASSUME TypeOK, NEW r, NEW v \in {1, 2}, NEW n \in Nonces,
         NEW s \in {"pending", "claimed", "executing"}
  PROVE  /\ [entry EXCEPT ![r] = Entry(v, n, s)] \in [Rows -> Entries]
         /\ [entry EXCEPT ![r] = Absent] \in [Rows -> Entries]
BY EntryType DEF TypeOK

\* The files that carry a tombstone are the only ones a load removes, so the
\* handoff directory keeps its shape.
LEMMA PurgedType ==
  ASSUME TypeOK
  PROVE  Purged \in [Rows -> Entries]
BY EntryType DEF TypeOK, Purged

\* The directory, the processes and the cursor start in their ranges.
LEMMA TypeInit == Init => TypeOK
<1> SUFFICES ASSUME Init PROVE TypeOK
  OBVIOUS
<1>1. entry \in [Rows -> Entries]
  <2>1. 0 \in Nonces
    BY BoundsAssumption DEF Nonces
  <2> QED
    BY <2>1, EntryType DEF Init
<1>2. lastSeenId \in -1..MaxRow /\ hist \in 0..MaxRow
  BY BoundsAssumption DEF Init
<1>3. turns \in [Rows -> Int] /\ passed \in SUBSET Rows
  BY DEF Rows, Init
<1>4. policy \in SUBSET Rows
  BY PoliciesAssumption DEF Init
<1>5. 0 \in Nonces /\ 0 \in 0..MaxRow /\ 0 \in 0..Backoffs
  BY BoundsAssumption DEF Nonces
<1> QED
  BY <1>1, <1>2, <1>3, <1>4, <1>5 DEF Init, TypeOK, InHand

\* Every step of harness and desktop keeps them there.
LEMMA TypeStep == TypeOK /\ [Next]_vars => TypeOK'
<1> SUFFICES ASSUME TypeOK, [Next]_vars PROVE TypeOK'
  OBVIOUS
<1> USE BoundsAssumption DEF InHand
<1>1. CASE Boot
  BY <1>1 DEF Rows, Boot, TypeOK, desktop
<1>2. CASE LoadPending
  BY <1>2, PurgedType DEF LoadPending, TypeOK, desktop, history
<1>3. CASE LoadHistory
  BY <1>3 DEF Rows, LoadHistory, TypeOK, disk, desktop, history
<1>4. ASSUME NEW r \in Rows, NextPending(r) PROVE TypeOK'
  BY <1>4 DEF Rows, NextPending, Exit, TypeOK, disk, desktop, history
<1>5. ASSUME NEW r \in Rows, PassRow(r) PROVE TypeOK'
  BY <1>5 DEF Rows, PassRow, ClaimRow, Larger, TypeOK, desktop
<1>6. ASSUME NEW r \in Rows, StageCreate(r) PROVE TypeOK'
  <2>1. entry' \in [Rows -> Entries]
    BY <1>6, EntryUpdate DEF StageCreate, TypeOK
  <2> QED
    BY <1>6, <2>1 DEF Rows, StageCreate, TypeOK, desktop, history
<1>7. CASE StageReload
  BY <1>7, PurgedType
  DEF StageReload, ClaimRow, Larger, Exit, TypeOK, desktop, history
<1>8. CASE PersistClaimed
  <2>1. entry' \in [Rows -> Entries]
    BY <1>8, EntryUpdate DEF PersistClaimed, TypeOK
  <2> QED
    BY <1>8, <2>1 DEF PersistClaimed, TypeOK, desktop, history
<1>9. CASE ClaimCursor
  BY <1>9 DEF ClaimCursor, ClaimRow, Larger, TypeOK, desktop
<1>10. CASE PersistExecuting
  <2>1. entry' \in [Rows -> Entries]
    BY <1>10, EntryUpdate DEF PersistExecuting, TypeOK
  <2> QED
    BY <1>10, <2>1 DEF PersistExecuting, TypeOK, desktop
<1>11. CASE TurnAnswered
  BY <1>11 DEF TurnAnswered, TypeOK, desktop, history
<1>12. CASE RemovePending
  <2>1. entry' \in [Rows -> Entries]
    BY <1>12, EntryUpdate DEF RemovePending, TypeOK
  <2> QED
    BY <1>12, <2>1 DEF RemovePending, TypeOK, desktop, history
<1>13. CASE TurnSilent
  <2>1. entry' \in [Rows -> Entries]
    BY <1>13, EntryUpdate DEF TurnSilent, TypeOK
  <2> QED
    BY <1>13, <2>1 DEF TurnSilent, TypeOK, desktop
<1>14. CASE LowerCursor
  BY <1>14 DEF LowerCursor, Exit, TypeOK, desktop, history
<1>15. CASE TurnFailed \/ HarnessCrash
  BY <1>15 DEF TurnFailed, HarnessCrash, Exit, TypeOK, disk, desktop, history
<1>16. CASE Reconciled
  BY <1>16 DEF Reconciled, TypeOK, disk, desktop, history
<1>17. CASE RowStored
  BY <1>17 DEF RowStored, TypeOK, disk, process, desktop, history
<1>18. ASSUME NEW p \in Policies, EditPolicy(p) PROVE TypeOK'
  BY <1>18, PoliciesAssumption
  DEF EditPolicy, TypeOK, disk, process, desktop, history
<1>19. ASSUME NEW r \in Rows, OfferLive(r) PROVE TypeOK'
  BY <1>19 DEF Rows, OfferLive, TypeOK, disk, process, history
<1>20. ASSUME NEW r \in 0..MaxRow, Launch(r) PROVE TypeOK'
  <2>1. nonces + 1 \in Nonces
    BY <1>20 DEF Launch, TypeOK, Nonces
  <2> QED
    BY <1>20, <2>1 DEF Launch, Exit, TypeOK, disk, history
<1>21. ASSUME NEW r \in Rows, Rebind(r) PROVE TypeOK'
  <2>1. entry' \in [Rows -> Entries]
    BY <1>21, EntryUpdate DEF Rebind, TypeOK
  <2> QED
    BY <1>21, <2>1 DEF Rebind, TypeOK, process, history
<1>22. CASE RebindDone \/ PersistCheck
  <2>1. dmsg # 0 => dmsg \in Rows
    BY DEF TypeOK, Rows
  <2> QED
    BY <1>22, <2>1
    DEF RebindDone, PersistCheck, Refused, TypeOK, disk, process, history
<1>23. CASE PersistNew
  <2>1. entry' \in [Rows -> Entries]
    BY <1>23, EntryUpdate DEF PersistNew, TypeOK
  <2> QED
    BY <1>23, <2>1 DEF PersistNew, TypeOK, process, history
<1>24. CASE Adopt
  <2>1. entry' \in [Rows -> Entries]
    BY <1>24, EntryUpdate DEF Adopt, TypeOK
  <2> QED
    BY <1>24, <2>1 DEF Adopt, Refused, Persisted, TypeOK, process, history
<1>25. CASE PersistRecheck
  <2>1. entry' \in [Rows -> Entries]
    BY <1>25, EntryUpdate DEF PersistRecheck, TypeOK
  <2> QED
    BY <1>25, <2>1 DEF PersistRecheck, Refused, Persisted, TypeOK, process, history
<1>26. CASE Spawn
  BY <1>26 DEF Spawn, TypeOK, disk, history
<1>27. CASE DesktopCrash
  BY <1>27 DEF DesktopCrash, TypeOK, disk, process, history
<1>28. CASE UNCHANGED vars
  BY <1>28 DEF vars, TypeOK, disk, process, desktop, history
<1> QED
  BY <1>1, <1>2, <1>3, <1>4, <1>5, <1>6, <1>7, <1>8, <1>9, <1>10, <1>11,
     <1>12, <1>13, <1>14, <1>15, <1>16, <1>17, <1>18, <1>19, <1>20, <1>21,
     <1>22, <1>23, <1>24, <1>25, <1>26, <1>27, <1>28
  DEF Next, Harness, Desktop

\* Type correctness of the handoff: no step of harness or desktop leaves the
\* files, the cursor or the recovery counter outside their ranges.
THEOREM TypeCorrect == Spec => []TypeOK
BY TypeInit, TypeStep, PTL DEF Spec

-----------------------------------------------------------------------------
(* The inductive invariant.                                                *)

\* Nonces grow, a running harness has one, and a command that is launching
\* finds no process running.
NonceInv ==
  /\ gen <= nonces /\ dnonce <= nonces
  /\ Live => gen > 0
  /\ \A r \in Rows : entry[r].ver = 1 => entry[r].nonce = 0
  /\ dpc # "idle" => dnonce > 0
  /\ dpc # "idle" => dnonce = gen \/ (dnonce > gen /\ pc = "down")
  /\ dpc \in {"rebind", "spawn"} => dnonce # gen

\* Everything a launch has visited, and everything a running harness meets,
\* is under its own nonce unless it is ambiguous.
RebindInv ==
  /\ NoStrandedOffer
  /\ dpc = "rebind" =>
       \A r \in Rows \ dtodo : Retryable(entry[r]) => entry[r].nonce = dnonce
  /\ dpc \in {"check", "create", "recheck", "spawn"} /\ dnonce # gen =>
       \A r \in Rows : Retryable(entry[r]) => entry[r].nonce = dnonce

\* A row whose turn may have had an effect shows it on disk.
TurnInv ==
  \A r \in Rows :
    /\ turns[r] \in {0, 1}
    /\ turns[r] = 1 => r \in completed \/ Ambiguous(entry[r])

\* A file of this harness that it may still run.
Mine(r) == /\ r \notin completed
           /\ Retryable(entry[r])
           /\ entry[r].nonce = gen

\* What the file of the row in hand holds at each point of the claim, and
\* that the rows loaded with it are still as they were loaded.
HandInv ==
  /\ pc = "staged" => /\ phase = "history"
                      /\ cur \notin completed
                      /\ entry[cur] # Absent
  /\ pc = "claim" => Mine(cur)
  /\ pc \in {"claimed", "cursor"} =>
       cur \notin completed /\ entry[cur] = Entry(2, gen, "claimed")
  /\ pc = "turn" => /\ cur \notin completed
                    /\ entry[cur] = Entry(2, gen, "executing")
                    /\ turns[cur] = 1
  /\ pc = "answered" => cur \in completed
  /\ pc = "released" =>
       cur \notin completed /\ entry[cur] = Entry(2, gen, "pending")
  /\ phase = "pending" /\ (pc = "next" \/ InHand) =>
       \A q \in queue : pc = "next" \/ q # cur => Mine(q)

\* The cursor in memory is the one on disk, it is above every ambiguous
\* file, and it may be lowered to prev without uncovering one.
CursorInv ==
  /\ pc \notin {"down", "boot"} => lastSeenId = seen
  /\ \A r \in Rows : Ambiguous(entry[r]) => r <= lastSeenId
  /\ pc \in {"claimed", "cursor", "turn", "answered", "released"} =>
       /\ prev <= seen
       /\ \A r \in Rows : r # cur /\ Ambiguous(entry[r]) => r <= prev
  /\ pc \in {"cursor", "turn", "answered", "released"} => cur <= seen

\* The history loop holds every row above the cursor up to its last one.
QueueInv ==
  phase = "history" /\ (pc = "next" \/ InHand) =>
    /\ \A q \in queue : \A r \in Rows : seen < r /\ r <= q => r \in queue
    /\ pc = "next" => \A q \in queue : q > seen
    /\ InHand => /\ cur \in queue
                 /\ \A q \in queue : cur <= q /\ (q = cur \/ q > seen)
    /\ pc \in {"staged", "claim", "claimed"} => cur > seen

\* The inductive invariant of the handoff.
IInv ==
  /\ TypeOK
  /\ NonceInv
  /\ RebindInv
  /\ TurnInv
  /\ HandInv
  /\ CursorInv
  /\ QueueInv
  /\ NoForgottenMention

-----------------------------------------------------------------------------
(* That it is inductive.                                                   *)

\* The kinds of handoff file: absent, may run, may have run.
LEMMA EntryFacts ==
  /\ ~Retryable(Absent) /\ ~Ambiguous(Absent) /\ Absent.ver = 0
  /\ \A n, s : /\ Entry(2, n, s) # Absent
               /\ Entry(2, n, s).nonce = n
               /\ Entry(2, n, s).ver = 2
  /\ \A n : /\ Retryable(Entry(2, n, "pending")) /\ ~Ambiguous(Entry(2, n, "pending"))
            /\ Retryable(Entry(2, n, "claimed")) /\ ~Ambiguous(Entry(2, n, "claimed"))
            /\ Ambiguous(Entry(2, n, "executing")) /\ ~Retryable(Entry(2, n, "executing"))
  /\ \A e \in Entries : /\ e = Absent \/ Retryable(e) \/ Ambiguous(e)
                        /\ ~(Retryable(e) /\ Ambiguous(e))
                        /\ e.ver = 1 \/ e.ver = 2 \/ e = Absent
BY DEF Absent, Entry, Entries, Retryable, Ambiguous

\* Every step of harness and desktop keeps the inductive invariant. Each case
\* first takes the parts the action can disturb, then the ones it leaves.
LEMMA InvStep == IInv /\ [Next]_vars => IInv'
<1> SUFFICES ASSUME IInv, [Next]_vars PROVE IInv'
  OBVIOUS
<1>0. TypeOK /\ TypeOK'
  BY TypeStep DEF IInv
<1> USE <1>0, BoundsAssumption, EntryFacts
    DEF IInv, TypeOK, InHand, Live, disk, process, desktop, history
<1>1. CASE Boot
  <2> USE <1>1 DEF Boot
  <2>1. NonceInv'
    BY DEF NonceInv, Nonces
  <2>2. RebindInv'
    BY DEF RebindInv, NoStrandedOffer
  <2>3. HandInv'
    BY DEF HandInv, Mine
  <2>4. CursorInv'
    BY DEF CursorInv, Rows
  <2>5. QueueInv'
    BY DEF QueueInv, Rows
  <2>6. NoForgottenMention'
    BY DEF NoForgottenMention, CursorInv, QueueInv, HandInv, Rows
  <2>7. TurnInv'
    BY DEF TurnInv
  <2> QED
    BY <2>1, <2>2, <2>3, <2>4, <2>5, <2>6, <2>7
<1>2. CASE LoadPending
  <2> USE <1>2 DEF LoadPending, Purged
  <2>1. NonceInv'
    BY DEF NonceInv, Nonces
  <2>2. RebindInv'
    BY DEF RebindInv, NoStrandedOffer
  <2>3. TurnInv'
    BY DEF TurnInv
  <2>4. HandInv'
    BY DEF HandInv, Mine
  <2>5. CursorInv'
    BY DEF CursorInv, Rows
  <2>6. QueueInv'
    BY DEF QueueInv, Rows
  <2>7. NoForgottenMention'
    BY DEF NoForgottenMention
  <2> QED
    BY <2>1, <2>2, <2>3, <2>4, <2>5, <2>6, <2>7
<1>3. CASE LoadHistory
  <2> USE <1>3 DEF LoadHistory
  <2>1. HandInv'
    BY DEF HandInv, Mine
  <2>2. QueueInv'
    BY DEF QueueInv, Rows
  <2>3. NonceInv' /\ RebindInv' /\ TurnInv' /\ CursorInv' /\ NoForgottenMention'
    BY DEF NonceInv, RebindInv, NoStrandedOffer, TurnInv, CursorInv,
           NoForgottenMention
  <2> QED
    BY <2>1, <2>2, <2>3
<1>4. ASSUME NEW r \in Rows, NextPending(r) PROVE IInv'
  <2> USE <1>4 DEF NextPending, Exit, Least
  <2>1. NonceInv'
    BY DEF NonceInv, Nonces
  <2>2. RebindInv'
    BY DEF RebindInv, NoStrandedOffer
  <2>3. HandInv'
    BY DEF HandInv, Mine
  <2>4. CursorInv'
    BY DEF CursorInv, Rows
  <2>5. QueueInv'
    BY DEF QueueInv, Rows
  <2>6. TurnInv' /\ NoForgottenMention'
    BY DEF TurnInv, NoForgottenMention
  <2> QED
    BY <2>1, <2>2, <2>3, <2>4, <2>5, <2>6
<1>5. ASSUME NEW r \in Rows, PassRow(r) PROVE IInv'
  <2> USE <1>5 DEF PassRow, ClaimRow, Least, Larger
  <2>1. HandInv'
    BY DEF HandInv, Mine
  <2>2. CursorInv'
    BY DEF CursorInv, Rows
  <2>3. QueueInv'
    BY DEF QueueInv, Rows
  <2>4. NoForgottenMention'
    BY DEF NoForgottenMention, CursorInv, QueueInv, HandInv, Rows
  <2>5. NonceInv' /\ RebindInv' /\ TurnInv'
    BY DEF NonceInv, RebindInv, NoStrandedOffer, TurnInv
  <2> QED
    BY <2>1, <2>2, <2>3, <2>4, <2>5
<1>6. ASSUME NEW r \in Rows, StageCreate(r) PROVE IInv'
  <2> USE <1>6 DEF StageCreate, Least
  <2>1. NonceInv'
    BY DEF NonceInv, Nonces
  <2>2. RebindInv'
    BY DEF NonceInv, RebindInv, NoStrandedOffer, HandInv, Mine, Nonces
  <2>3. TurnInv'
    BY DEF TurnInv
  <2>4. HandInv'
    BY DEF HandInv, Mine
  <2>5. CursorInv'
    BY DEF CursorInv, Rows
  <2>6. QueueInv'
    BY DEF QueueInv, Rows
  <2>7. NoForgottenMention'
    BY DEF NoForgottenMention
  <2> QED
    BY <2>1, <2>2, <2>3, <2>4, <2>5, <2>6, <2>7
<1>7. CASE StageReload
  <2> USE <1>7 DEF StageReload, Purged, ClaimRow, Exit, Larger
  <2>1. NonceInv'
    BY DEF NonceInv, Nonces
  <2>2. RebindInv'
    BY DEF RebindInv, NoStrandedOffer
  <2>3. TurnInv'
    BY DEF TurnInv
  <2>4. HandInv'
    BY DEF HandInv, Mine
  <2>5. CursorInv'
    BY DEF CursorInv, Rows
  <2>6. QueueInv'
    BY DEF QueueInv, Rows
  <2>7. NoForgottenMention'
    BY DEF NoForgottenMention, CursorInv, QueueInv, HandInv, Rows
  <2> QED
    BY <2>1, <2>2, <2>3, <2>4, <2>5, <2>6, <2>7
<1>8. CASE PersistClaimed
  <2> USE <1>8 DEF PersistClaimed
  <2>1. NonceInv'
    BY DEF NonceInv, Nonces
  <2>2. RebindInv'
    BY DEF NonceInv, RebindInv, NoStrandedOffer, HandInv, Mine, Nonces
  <2>3. TurnInv'
    BY DEF TurnInv, HandInv, Mine
  <2>4. HandInv'
    BY DEF HandInv, Mine
  <2>5. CursorInv'
    BY DEF CursorInv, Rows
  <2>6. QueueInv'
    BY DEF QueueInv, Rows
  <2>7. NoForgottenMention'
    BY DEF NoForgottenMention
  <2> QED
    BY <2>1, <2>2, <2>3, <2>4, <2>5, <2>6, <2>7
<1>9. CASE ClaimCursor
  <2> USE <1>9 DEF ClaimCursor, ClaimRow, Larger
  <2>1. NonceInv'
    BY DEF NonceInv, Nonces
  <2>2. RebindInv'
    BY DEF RebindInv, NoStrandedOffer
  <2>3. HandInv'
    BY DEF HandInv, Mine
  <2>4. CursorInv'
    BY DEF CursorInv, Rows
  <2>5. QueueInv'
    BY DEF QueueInv, Rows
  <2>6. NoForgottenMention'
    BY DEF NoForgottenMention, CursorInv, QueueInv, HandInv, Rows
  <2>7. TurnInv'
    BY DEF TurnInv
  <2> QED
    BY <2>1, <2>2, <2>3, <2>4, <2>5, <2>6, <2>7
<1>10. CASE PersistExecuting
  <2> USE <1>10 DEF PersistExecuting
  <2>1. NonceInv'
    BY DEF NonceInv, Nonces
  <2>2. RebindInv'
    BY DEF RebindInv, NoStrandedOffer
  <2>3. TurnInv'
    BY DEF TurnInv, HandInv, Mine
  <2>4. HandInv'
    BY DEF HandInv, Mine, NonceInv, RebindInv, NoStrandedOffer, TurnInv
  <2>5. CursorInv'
    BY DEF CursorInv, Rows
  <2>6. QueueInv'
    BY DEF QueueInv, Rows
  <2>7. NoForgottenMention'
    BY DEF NoForgottenMention
  <2> QED
    BY <2>1, <2>2, <2>3, <2>4, <2>5, <2>6, <2>7
<1>11. CASE TurnAnswered
  <2> USE <1>11 DEF TurnAnswered
  <2>1. NonceInv'
    BY DEF NonceInv, Nonces
  <2>2. RebindInv'
    BY DEF RebindInv, NoStrandedOffer
  <2>3. TurnInv'
    BY DEF TurnInv
  <2>4. HandInv'
    BY DEF HandInv, Mine
  <2>5. CursorInv'
    BY DEF CursorInv, Rows
  <2>6. QueueInv'
    BY DEF QueueInv, Rows
  <2>7. NoForgottenMention'
    BY DEF NoForgottenMention
  <2> QED
    BY <2>1, <2>2, <2>3, <2>4, <2>5, <2>6, <2>7
<1>12. CASE RemovePending
  <2> USE <1>12 DEF RemovePending
  <2>1. NonceInv'
    BY DEF NonceInv, Nonces
  <2>2. RebindInv'
    BY DEF RebindInv, NoStrandedOffer
  <2>3. TurnInv'
    BY DEF TurnInv, HandInv, Mine
  <2>4. HandInv'
    BY DEF HandInv, Mine
  <2>5. CursorInv'
    BY DEF CursorInv, Rows
  <2>6. QueueInv'
    BY DEF QueueInv, CursorInv, Rows
  <2>7. NoForgottenMention'
    BY DEF NoForgottenMention, CursorInv, QueueInv, HandInv, Rows
  <2> QED
    BY <2>1, <2>2, <2>3, <2>4, <2>5, <2>6, <2>7
<1>13. CASE TurnSilent
  <2> USE <1>13 DEF TurnSilent
  <2>1. NonceInv'
    BY DEF NonceInv, Nonces
  <2>2. RebindInv'
    BY DEF NonceInv, RebindInv, NoStrandedOffer, HandInv, Mine, Nonces
  <2>3. TurnInv'
    BY DEF TurnInv, HandInv, Mine
  <2>4. HandInv'
    BY DEF HandInv, Mine
  <2>5. CursorInv'
    BY DEF CursorInv, Rows
  <2>6. QueueInv'
    BY DEF QueueInv, Rows
  <2>7. NoForgottenMention'
    BY DEF NoForgottenMention
  <2> QED
    BY <2>1, <2>2, <2>3, <2>4, <2>5, <2>6, <2>7
<1>14. CASE LowerCursor
  <2> USE <1>14 DEF LowerCursor, Exit
  <2>1. NonceInv'
    BY DEF NonceInv, Nonces
  <2>2. RebindInv'
    BY DEF RebindInv, NoStrandedOffer
  <2>3. HandInv'
    BY DEF HandInv, Mine
  <2>4. CursorInv'
    BY DEF CursorInv, HandInv, QueueInv, Rows
  <2>5. QueueInv'
    BY DEF QueueInv, Rows
  <2>6. NoForgottenMention'
    BY DEF NoForgottenMention, CursorInv, QueueInv, HandInv, Rows
  <2>7. TurnInv'
    BY DEF TurnInv
  <2> QED
    BY <2>1, <2>2, <2>3, <2>4, <2>5, <2>6, <2>7
<1>15. CASE TurnFailed
  <2> USE <1>15 DEF TurnFailed, Exit
  <2>1. NonceInv'
    BY DEF NonceInv, Nonces
  <2>2. RebindInv'
    BY DEF RebindInv, NoStrandedOffer
  <2>3. HandInv'
    BY DEF HandInv, Mine
  <2>4. CursorInv'
    BY DEF CursorInv, Rows
  <2>5. QueueInv'
    BY DEF QueueInv, Rows
  <2>6. TurnInv' /\ NoForgottenMention'
    BY DEF TurnInv, NoForgottenMention
  <2> QED
    BY <2>1, <2>2, <2>3, <2>4, <2>5, <2>6
<1>16. CASE HarnessCrash
  <2> USE <1>16 DEF HarnessCrash, Exit
  <2>1. NonceInv'
    BY DEF NonceInv, Nonces
  <2>2. RebindInv'
    BY DEF RebindInv, NoStrandedOffer
  <2>3. HandInv'
    BY DEF HandInv, Mine
  <2>4. CursorInv'
    BY DEF CursorInv, Rows
  <2>5. QueueInv'
    BY DEF QueueInv, Rows
  <2>6. TurnInv' /\ NoForgottenMention'
    BY DEF TurnInv, NoForgottenMention
  <2> QED
    BY <2>1, <2>2, <2>3, <2>4, <2>5, <2>6
<1>17. CASE Reconciled
  <2> USE <1>17 DEF Reconciled
  <2>1. NonceInv'
    BY DEF NonceInv, Nonces
  <2>2. RebindInv'
    BY DEF RebindInv, NoStrandedOffer
  <2>3. HandInv'
    BY DEF HandInv, Mine
  <2>4. CursorInv'
    BY DEF CursorInv, Rows
  <2>5. QueueInv'
    BY DEF QueueInv, Rows
  <2>6. TurnInv' /\ NoForgottenMention'
    BY DEF TurnInv, NoForgottenMention
  <2> QED
    BY <2>1, <2>2, <2>3, <2>4, <2>5, <2>6
<1>18. CASE RowStored
  BY <1>18 DEF RowStored, NonceInv, RebindInv, NoStrandedOffer, TurnInv,
               HandInv, Mine, CursorInv, QueueInv, NoForgottenMention
<1>19. ASSUME NEW p \in Policies, EditPolicy(p) PROVE IInv'
  BY <1>19 DEF EditPolicy, NonceInv, RebindInv, NoStrandedOffer, TurnInv,
               HandInv, Mine, CursorInv, QueueInv, NoForgottenMention
<1>20. ASSUME NEW r \in Rows, OfferLive(r) PROVE IInv'
  <2> USE <1>20 DEF OfferLive, Wakeable
  <2>1. NonceInv'
    BY DEF NonceInv, Nonces
  <2>2. RebindInv'
    BY DEF RebindInv, NoStrandedOffer
  <2>3. TurnInv' /\ HandInv' /\ CursorInv' /\ QueueInv' /\ NoForgottenMention'
    BY DEF TurnInv, HandInv, Mine, CursorInv, QueueInv, NoForgottenMention
  <2> QED
    BY <2>1, <2>2, <2>3
<1>21. ASSUME NEW r \in 0..MaxRow, Launch(r) PROVE IInv'
  <2> USE <1>21 DEF Launch, Exit, Wakeable
  <2>1. NonceInv'
    BY DEF NonceInv, Nonces
  <2>2. RebindInv'
    BY DEF RebindInv, NoStrandedOffer
  <2>3. HandInv'
    BY DEF HandInv, Mine
  <2>4. CursorInv'
    BY DEF CursorInv, Rows
  <2>5. QueueInv'
    BY DEF QueueInv, Rows
  <2>6. TurnInv' /\ NoForgottenMention'
    BY DEF TurnInv, NoForgottenMention
  <2> QED
    BY <2>1, <2>2, <2>3, <2>4, <2>5, <2>6
<1>22. ASSUME NEW r \in Rows, Rebind(r) PROVE IInv'
  <2> USE <1>22 DEF Rebind
  <2>1. NonceInv'
    BY DEF NonceInv, Nonces
  <2>2. RebindInv'
    BY DEF NonceInv, RebindInv, NoStrandedOffer, HandInv, Mine, Nonces
  <2>3. TurnInv'
    BY DEF TurnInv
  <2>4. HandInv'
    BY DEF HandInv, Mine, NonceInv, RebindInv, NoStrandedOffer, TurnInv
  <2>5. CursorInv'
    BY DEF CursorInv, Rows
  <2>6. NoForgottenMention'
    BY DEF NoForgottenMention
  <2>7. QueueInv'
    BY DEF QueueInv
  <2> QED
    BY <2>1, <2>2, <2>3, <2>4, <2>5, <2>6, <2>7
<1>23. CASE RebindDone
  <2> USE <1>23 DEF RebindDone
  <2>1. NonceInv'
    BY DEF NonceInv, Nonces
  <2>2. RebindInv'
    BY DEF RebindInv, NoStrandedOffer
  <2>3. TurnInv' /\ HandInv' /\ CursorInv' /\ QueueInv' /\ NoForgottenMention'
    BY DEF TurnInv, HandInv, Mine, CursorInv, QueueInv, NoForgottenMention
  <2> QED
    BY <2>1, <2>2, <2>3
<1>24. CASE PersistCheck
  <2> USE <1>24 DEF PersistCheck, Refused
  <2>1. NonceInv'
    BY DEF NonceInv, Nonces
  <2>2. RebindInv'
    BY DEF RebindInv, NoStrandedOffer
  <2>3. TurnInv' /\ HandInv' /\ CursorInv' /\ QueueInv' /\ NoForgottenMention'
    BY DEF TurnInv, HandInv, Mine, CursorInv, QueueInv, NoForgottenMention
  <2> QED
    BY <2>1, <2>2, <2>3
<1>25. CASE PersistNew
  <2> USE <1>25 DEF PersistNew
  <2>1. NonceInv'
    BY DEF NonceInv, Nonces
  <2>2. RebindInv'
    BY DEF NonceInv, RebindInv, NoStrandedOffer, HandInv, Mine, Nonces
  <2>3. TurnInv'
    BY DEF TurnInv
  <2>4. HandInv'
    BY DEF HandInv, Mine
  <2>5. CursorInv'
    BY DEF CursorInv, Rows
  <2>6. NoForgottenMention'
    BY DEF NoForgottenMention
  <2>7. QueueInv'
    BY DEF QueueInv
  <2> QED
    BY <2>1, <2>2, <2>3, <2>4, <2>5, <2>6, <2>7
<1>26. CASE Adopt
  <2> USE <1>26 DEF Adopt, Refused, Persisted
  <2>1. NonceInv'
    BY DEF NonceInv, Nonces
  <2>2. RebindInv'
    BY DEF RebindInv, NoStrandedOffer
  <2>3. TurnInv'
    BY DEF TurnInv
  <2>4. HandInv'
    BY DEF HandInv, Mine, NonceInv, RebindInv, NoStrandedOffer, TurnInv
  <2>5. CursorInv'
    <3>1. \A q \in Rows : Ambiguous(entry'[q]) => Ambiguous(entry[q])
      OBVIOUS
    <3> QED
      BY <3>1 DEF CursorInv
  <2>6. NoForgottenMention'
    BY DEF NoForgottenMention
  <2>7. QueueInv'
    BY DEF QueueInv
  <2> QED
    BY <2>1, <2>2, <2>3, <2>4, <2>5, <2>6, <2>7
<1>27. CASE PersistRecheck
  <2> USE <1>27 DEF PersistRecheck, Refused, Persisted
  <2>1. NonceInv'
    BY DEF NonceInv, Nonces
  <2>2. RebindInv'
    BY DEF RebindInv, NoStrandedOffer
  <2>3. TurnInv'
    BY DEF TurnInv
  <2>4. HandInv'
    BY DEF HandInv, Mine
  <2>5. CursorInv'
    BY DEF CursorInv, Rows
  <2>6. NoForgottenMention'
    BY DEF NoForgottenMention
  <2>7. QueueInv'
    BY DEF QueueInv
  <2> QED
    BY <2>1, <2>2, <2>3, <2>4, <2>5, <2>6, <2>7
<1>28. CASE Spawn
  <2> USE <1>28 DEF Spawn
  <2>1. NonceInv'
    BY DEF NonceInv, Nonces
  <2>2. RebindInv'
    BY DEF NonceInv, RebindInv, NoStrandedOffer, HandInv, Mine, Nonces
  <2>3. HandInv'
    BY DEF HandInv, Mine
  <2>4. CursorInv'
    BY DEF CursorInv, Rows
  <2>5. QueueInv'
    BY DEF QueueInv, Rows
  <2>6. TurnInv' /\ NoForgottenMention'
    BY DEF TurnInv, NoForgottenMention
  <2> QED
    BY <2>1, <2>2, <2>3, <2>4, <2>5, <2>6
<1>29. CASE DesktopCrash
  <2> USE <1>29 DEF DesktopCrash
  <2>1. NonceInv'
    BY DEF NonceInv, Nonces
  <2>2. RebindInv'
    BY DEF RebindInv, NoStrandedOffer
  <2>3. TurnInv' /\ HandInv' /\ CursorInv' /\ QueueInv' /\ NoForgottenMention'
    BY DEF TurnInv, HandInv, Mine, CursorInv, QueueInv, NoForgottenMention
  <2> QED
    BY <2>1, <2>2, <2>3
<1>30. CASE UNCHANGED vars
  BY <1>30 DEF vars, NonceInv, RebindInv, NoStrandedOffer, TurnInv, HandInv,
               Mine, CursorInv, QueueInv, NoForgottenMention
<1> QED
  BY <1>1, <1>2, <1>3, <1>4, <1>5, <1>6, <1>7, <1>8, <1>9, <1>10, <1>11,
     <1>12, <1>13, <1>14, <1>15, <1>16, <1>17, <1>18, <1>19, <1>20, <1>21,
     <1>22, <1>23, <1>24, <1>25, <1>26, <1>27, <1>28, <1>29, <1>30
  DEF Next, Harness, Desktop

\* The first launch, or an earlier build's directory, satisfies it.
LEMMA InvInit == Init => IInv
<1> SUFFICES ASSUME Init PROVE IInv
  OBVIOUS
<1>1. TypeOK
  BY TypeInit
<1>2. \A r \in Rows : /\ entry[r].nonce = 0
                      /\ entry[r].st \in {"none", "pending", "claimed"}
                      /\ entry[r].ver \in {0, 1}
                      /\ entry[r].ver = 0 => entry[r] = Absent
  BY DEF Init, Absent, Entry
<1>3. NonceInv /\ RebindInv /\ HandInv /\ QueueInv
  BY <1>1, <1>2
  DEF Init, TypeOK, NonceInv, RebindInv, NoStrandedOffer, HandInv, QueueInv,
      InHand, Live
<1>4. \A r \in Rows : Ambiguous(entry[r]) <=> entry[r].st = "claimed"
  BY <1>2 DEF Ambiguous, Absent
<1>5. TurnInv
  BY <1>1, <1>4 DEF Init, TypeOK, TurnInv
<1>6. CursorInv
  BY <1>1, <1>4 DEF Init, TypeOK, CursorInv
<1>7. NoForgottenMention
  BY DEF Init, NoForgottenMention
<1> QED
  BY <1>1, <1>3, <1>5, <1>6, <1>7 DEF IInv

\* The inductive invariant holds throughout.
THEOREM Inductive == Spec => []IInv
BY InvInit, InvStep, PTL DEF Spec

-----------------------------------------------------------------------------
(* What follows from it.                                                   *)

\* Every mention gets at most one turn that may have had an effect, whatever
\* crashes, relaunches and repeated wakes interleave with the claim's writes.
THEOREM OneTurn == Spec => []AtMostOneTurn
<1>1. IInv => AtMostOneTurn
  BY DEF IInv, TurnInv, AtMostOneTurn
<1> QED
  BY <1>1, Inductive, PTL

\* No row at or below the durable cursor is lost to a crash between the
\* writes that claim, complete or release it.
THEOREM NothingForgotten == Spec => []NoForgottenMention
<1>1. IInv => NoForgottenMention
  BY DEF IInv
<1> QED
  BY <1>1, Inductive, PTL

\* A running harness finds everything it may still run under its own nonce.
THEOREM OffersReach == Spec => []NoStrandedOffer
<1>1. IInv => NoStrandedOffer
  BY DEF IInv, RebindInv
<1> QED
  BY <1>1, Inductive, PTL

\* The history path of stage_causal_message never meets a foreign file.
THEOREM StagingValid == Spec => []StagingNeverInvalid
<1>1. IInv => StagingNeverInvalid
  <2> SUFFICES ASSUME IInv, pc = "staged"
               PROVE  entry[cur] # Absent /\ entry[cur].nonce = gen
    BY DEF StagingNeverInvalid
  <2>1. cur \in Rows /\ entry[cur] \in Entries /\ entry[cur] # Absent
    BY DEF IInv, TypeOK, HandInv, InHand
  <2>2. ~Ambiguous(entry[cur])
    BY <2>1, BoundsAssumption
    DEF IInv, TypeOK, HandInv, CursorInv, QueueInv, InHand, Rows
  <2> QED
    BY <2>1, <2>2, EntryFacts DEF IInv, RebindInv, NoStrandedOffer, Live
<1> QED
  BY <1>1, Inductive, PTL

\* What may have run is never offered again, by harness or desktop.
THEOREM DoubtIsFinal == Spec => AmbiguityIsFinal
<1> DEFINE A == \A r \in Rows :
                  Ambiguous(entry[r]) /\ entry'[r] # entry[r] =>
                    \/ r \in completed
                    \/ pc = "turn" /\ cur = r /\ entry[r].nonce = gen
<1>1. IInv /\ [Next]_vars => A
  <2> SUFFICES ASSUME IInv, Next, NEW r \in Rows,
                      Ambiguous(entry[r]), entry'[r] # entry[r],
                      r \notin completed
               PROVE  pc = "turn" /\ cur = r /\ entry[r].nonce = gen
    BY DEF vars, disk
  <2>0. entry \in [Rows -> Entries] /\ ~Retryable(entry[r]) /\ entry[r] # Absent
    BY EntryFacts DEF IInv, TypeOK
  <2>1. CASE LoadPending \/ StageReload
    BY <2>0, <2>1 DEF LoadPending, StageReload, Purged
  <2>2. CASE PersistClaimed \/ PersistExecuting \/ RemovePending \/ TurnSilent
    BY <2>0, <2>2, EntryFacts
    DEF IInv, HandInv, Mine, PersistClaimed, PersistExecuting, RemovePending,
        TurnSilent
  <2>3. ASSUME NEW m \in Rows, StageCreate(m) \/ Rebind(m)
        PROVE  FALSE
    BY <2>0, <2>3 DEF StageCreate, Rebind
  <2>4. CASE PersistNew \/ Adopt \/ PersistRecheck
    BY <2>0, <2>4 DEF PersistNew, Adopt, PersistRecheck
  <2>5. CASE UNCHANGED entry
    BY <2>5
  <2> QED
    BY <2>1, <2>2, <2>3, <2>4, <2>5
    DEF Next, Harness, Desktop, Boot, LoadHistory, NextPending, PassRow,
        ClaimCursor, TurnAnswered, LowerCursor, TurnFailed, Reconciled,
        HarnessCrash, RowStored, EditPolicy, OfferLive, Launch, RebindDone,
        PersistCheck, Spawn, DesktopCrash, disk
<1>2. IInv /\ [Next]_vars => [A]_vars
  BY <1>1
<1> QED
  BY <1>2, Inductive, PTL DEF Spec, AmbiguityIsFinal

-----------------------------------------------------------------------------
(* The handoff implements the delivery of mentions.                        *)

\* A step that leaves every mention's status alone is a stutter of delivery.
LEMMA StutterStep ==
  ASSUME \A r \in Rows : StatusOf(r)' = StatusOf(r)
  PROVE  [r \in Rows |-> StatusOf(r)]' = [r \in Rows |-> StatusOf(r)]
OBVIOUS

\* A step that changes one mention's status is that move of delivery.
LEMMA MoveStep ==
  ASSUME NEW m \in Rows, NEW from, NEW to,
         StatusOf(m) = from, StatusOf(m)' = to,
         \A r \in Rows \ {m} : StatusOf(r)' = StatusOf(r)
  PROVE  Delivery!Move(m, from, to)
BY DEF Delivery!Move

\* Every step of harness and desktop is a move of one mention or a stutter.
LEMMA DeliveryStep ==
  IInv /\ IInv' /\ [Next]_vars
    => [Delivery!Next]_([r \in Rows |-> StatusOf(r)])
<1> SUFFICES ASSUME IInv, IInv', [Next]_vars
             PROVE  [Delivery!Next]_([r \in Rows |-> StatusOf(r)])
  OBVIOUS
<1> DEFINE Same == \A r \in Rows : StatusOf(r)' = StatusOf(r)
           Goal == [Delivery!Next]_([r \in Rows |-> StatusOf(r)])
<1>0. Same => Goal
  BY StutterStep
<1> SUFFICES Goal
  OBVIOUS
<1> HIDE DEF Goal
<1>00. /\ entry \in [Rows -> Entries]
       /\ InHand => cur \in Rows
       /\ pc = "turn" => cur \notin completed /\ Ambiguous(entry[cur])
  BY EntryFacts DEF IInv, TypeOK, HandInv
<1> USE <1>00, EntryFacts
\* The turn in hand is left in doubt whenever its process ends.
<1>1. ASSUME pc' = "down", UNCHANGED <<entry, completed>>,
             pc = "turn" => UNCHANGED cur
      PROVE  Goal
  <2>1. CASE pc # "turn"
    BY <1>0, <1>1, <2>1 DEF StatusOf
  <2>2. CASE pc = "turn"
    <3>1. cur \in Rows /\ StatusOf(cur) = "running" /\ StatusOf(cur)' = "doubt"
      BY <1>1, <2>2 DEF StatusOf, InHand
    <3>2. \A r \in Rows \ {cur} : StatusOf(r)' = StatusOf(r)
      BY <1>1, <2>2 DEF StatusOf
    <3> QED
      BY <1>1, <2>2, <3>1, <3>2, MoveStep DEF Delivery!Next, Delivery!Doubt, Goal
  <2> QED
    BY <2>1, <2>2
<1>2. CASE PersistExecuting
  <2> USE <1>2 DEF PersistExecuting
  <2>1. cur \in Rows /\ StatusOf(cur) = "offered" /\ StatusOf(cur)' = "running"
    BY DEF IInv, HandInv, InHand, StatusOf
  <2>2. \A r \in Rows \ {cur} : StatusOf(r)' = StatusOf(r)
    BY DEF StatusOf
  <2>3. \A r \in Rows : StatusOf(r) # "running"
    BY DEF StatusOf
  <2> QED
    BY <2>1, <2>2, <2>3, MoveStep DEF Delivery!Next, Delivery!Begin, Goal
<1>3. CASE TurnAnswered
  <2> USE <1>3 DEF TurnAnswered
  <2>1. cur \in Rows /\ StatusOf(cur) = "running" /\ StatusOf(cur)' = "answered"
    BY DEF InHand, StatusOf
  <2>2. \A r \in Rows \ {cur} : StatusOf(r)' = StatusOf(r)
    BY DEF StatusOf
  <2> QED
    BY <2>1, <2>2, MoveStep DEF Delivery!Next, Delivery!Answer, Goal
<1>4. CASE TurnSilent
  <2> USE <1>4 DEF TurnSilent
  <2>1. cur \in Rows /\ StatusOf(cur) = "running" /\ StatusOf(cur)' = "offered"
    BY DEF InHand, StatusOf
  <2>2. \A r \in Rows \ {cur} : StatusOf(r)' = StatusOf(r)
    BY DEF StatusOf
  <2> QED
    BY <2>1, <2>2, MoveStep DEF Delivery!Next, Delivery!Release, Goal
\* A new file offers a mention, unless it is answered meanwhile.
<1>5. ASSUME NEW m \in Rows, NEW n, entry[m] = Absent,
             entry' = [entry EXCEPT ![m] = Entry(2, n, "pending")],
             pc # "turn" \/ UNCHANGED <<pc, cur>>, pc' # "turn" \/ UNCHANGED pc,
             UNCHANGED completed
      PROVE  Goal
  <2> USE <1>5
  <2>1. CASE m \in completed
    BY <1>0, <2>1 DEF StatusOf
  <2>2. CASE m \notin completed
    <3>1. StatusOf(m) = "unseen" /\ StatusOf(m)' = "offered"
      BY <2>2 DEF StatusOf
    <3>2. \A r \in Rows \ {m} : StatusOf(r)' = StatusOf(r)
      BY DEF StatusOf
    <3> QED
      BY <3>1, <3>2, MoveStep DEF Delivery!Next, Delivery!Offer, Goal
  <2> QED
    BY <2>1, <2>2
<1>6. ASSUME NEW r \in Rows, StageCreate(r) PROVE Goal
  BY <1>0, <1>5, <1>6 DEF StageCreate, StatusOf
<1>7. CASE PersistNew
  BY <1>5, <1>7 DEF PersistNew, IInv, TypeOK, process
\* Everything else changes no status.
<1>8. CASE LoadPending \/ StageReload
  <2>1. Same
    BY <1>8 DEF LoadPending, StageReload, Purged, Exit, StatusOf
  <2> QED
    BY <2>1, <1>0
<1>9. CASE PersistClaimed \/ RemovePending
  <2>1. Same
    BY <1>9 DEF PersistClaimed, RemovePending, StatusOf, IInv, HandInv, Mine, InHand
  <2> QED
    BY <2>1, <1>0
<1>10. ASSUME NEW r \in Rows, Rebind(r) PROVE Goal
  <2>1. Same
    BY <1>10 DEF Rebind, StatusOf, process
  <2> QED
    BY <2>1, <1>0
<1>11. CASE Adopt \/ PersistRecheck
  <2>1. Same
    BY <1>11 DEF Adopt, PersistRecheck, StatusOf, process, IInv, TypeOK
  <2> QED
    BY <2>1, <1>0
<1>12. ASSUME UNCHANGED <<entry, completed>>, pc = "turn" <=> pc' = "turn",
              pc = "turn" => UNCHANGED cur
       PROVE  Goal
  BY <1>0, <1>12 DEF StatusOf
<1>13. CASE TurnFailed \/ HarnessCrash \/ \E r \in 0..MaxRow : Launch(r)
  BY <1>1, <1>13 DEF TurnFailed, HarnessCrash, Launch, Exit, disk
<1>14. CASE Boot \/ LoadHistory \/ (\E r \in Rows : NextPending(r) \/ PassRow(r))
            \/ ClaimCursor \/ LowerCursor \/ Reconciled
  BY <1>12, <1>14
  DEF Boot, LoadHistory, NextPending, PassRow, ClaimCursor, LowerCursor,
      Reconciled, Exit, disk
<1>15. CASE Spawn
  <2>1. pc = "down"
    BY <1>15 DEF Spawn, IInv, NonceInv
  <2> QED
    BY <1>12, <1>15, <2>1 DEF Spawn, disk
<1>16. CASE RowStored \/ (\E p \in Policies : EditPolicy(p))
            \/ (\E r \in Rows : OfferLive(r)) \/ RebindDone \/ PersistCheck
            \/ DesktopCrash \/ UNCHANGED vars
  BY <1>12, <1>16
  DEF RowStored, EditPolicy, OfferLive, RebindDone, PersistCheck, DesktopCrash,
      vars, disk, process
<1> QED
  BY <1>2, <1>3, <1>4, <1>6, <1>7, <1>8, <1>9, <1>10, <1>11, <1>13, <1>14,
     <1>15, <1>16
  DEF Next, Harness, Desktop

\* The files and the two programs that share them implement the delivery of
\* mentions, so an answer and a doubt are final and one turn runs at a time.
THEOREM Refinement == Spec => ImplementsDelivery
<1>1. Init => Delivery!Init
  BY InvInit, EntryFacts DEF Init, StatusOf, Delivery!Init, IInv, TypeOK
<1> QED
  BY <1>1, DeliveryStep, Inductive, PTL DEF Spec, ImplementsDelivery, Delivery!Spec
=============================================================================
