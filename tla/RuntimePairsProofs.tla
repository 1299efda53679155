-------------------------- MODULE RuntimePairsProofs --------------------------
(***************************************************************************)
(* Theorems about the runtime pairs, for every set of agents, groups and   *)
(* start commands and every number of processes.                           *)
(***************************************************************************)
EXTENDS RuntimePairs, TLAPS

\* What is known of a start command's fields.
LEMMA JobFacts ==
  /\ Idle \in Jobs /\ Idle.at = "idle" /\ Idle.kind = "none"
  /\ \A kind, at, l, k, p :
       /\ Job(kind, at, l, k, p).kind = kind
       /\ Job(kind, at, l, k, p).at = at
       /\ Job(kind, at, l, k, p).launch = l
       /\ Job(kind, at, l, k, p).key = k
       /\ Job(kind, at, l, k, p).pid = p
  /\ \A kind \in {"pair", "local"},
        at \in {"preflight", "entered", "spawn", "stabilize"},
        l, k \in Pairs, p \in {0} \cup Pids : Job(kind, at, l, k, p) \in Jobs
  /\ \A j \in Jobs :
       \/ j = Idle
       \/ /\ j.kind \in {"pair", "local"}
          /\ j.at \in {"preflight", "entered", "spawn", "stabilize"}
          /\ j.launch \in Pairs /\ j.key \in Pairs
          /\ j.pid \in {0} \cup Pids
BY DEF Jobs, Idle, Job

\* An agent's pair in another group is a pair.
LEMMA PairFacts ==
  /\ \A k \in Pairs : k[1] \in Agents /\ k \in {k[1]} \X Groups
  /\ \A a \in Agents, g \in Groups : <<a, g>> \in Pairs
BY DEF Pairs

\* A command at work has a pair and a kind.
LEMMA AtWork ==
  ASSUME TypeOK, NEW c \in Starts, job[c].at # "idle"
  PROVE  /\ job[c].kind \in {"pair", "local"}
         /\ job[c].launch \in Pairs /\ job[c].key \in Pairs
         /\ job[c].pid \in {0} \cup Pids
BY JobFacts DEF TypeOK

\* Moving one command on leaves the others as they are.
LEMMA Moved ==
  ASSUME TypeOK, NEW c \in Starts, NEW kind \in {"pair", "local"},
         NEW at \in {"preflight", "entered", "spawn", "stabilize"},
         NEW l \in Pairs, NEW k \in Pairs, NEW p \in {0} \cup Pids,
         job' = [job EXCEPT ![c] = Job(kind, at, l, k, p)]
  PROVE  /\ job' \in [Starts -> Jobs]
         /\ \A d \in Starts \ {c} : job'[d] = job[d]
         /\ job'[c].kind = kind /\ job'[c].at = at
         /\ job'[c].key = k /\ job'[c].pid = p
BY JobFacts DEF TypeOK

\* Ending commands and saving records changes nothing of the others.
LEMMA SavedFacts ==
  ASSUME TypeOK, NEW C, NEW A, Saved(C, A)
  PROVE  /\ job' \in [Starts -> Jobs] /\ fresh' \in SUBSET Starts
         /\ \A d \in Starts : job'[d] = job[d] \/ job'[d] = Idle
         /\ \A d \in Starts : job'[d] = job[d] \/ job'[d].at = "idle"
         /\ \A d \in Starts : d \in C => job'[d].at = "idle"
BY JobFacts DEF TypeOK, Saved

-----------------------------------------------------------------------------
(* The inductive invariant.                                                *)

\* The store lock is held by one start at most.
MutexInv == \A c, d \in Starts : InStore(c) /\ InStore(d) => c = d

\* A start that holds it has emptied its pair's entry of the map; its child
\* was launched for that pair.
StartInv ==
  \A c \in Starts :
    /\ InStore(c) => tracked[job[c].key] = 0
    /\ job[c].at = "stabilize" =>
         job[c].pid \in 1..spawned /\ pairOf[job[c].pid] = job[c].key

\* Nothing names a process that was not spawned yet.
PidInv ==
  /\ alive \subseteq 1..spawned
  /\ prevOrphans \subseteq 1..spawned
  /\ registered \subseteq 1..spawned
  /\ \A k \in Pairs : tracked[k] \in 0..spawned /\ receipt[k] \in 0..spawned

\* What the sweep is about to reap is nobody's child.
SweepInv == tick = "scan" => \A p \in prevOrphans \ skip : ~Current(p)

\* The inductive invariant of the runtime pairs.
PairsInv ==
  /\ TypeOK
  /\ MutexInv
  /\ StartInv
  /\ PidInv
  /\ SweepInv
  /\ TrackedIsReceipted
  /\ TrackedRunsItsPair

\* The desktop starts with nothing running and nothing tracked.
LEMMA TypeInit == Init => TypeOK
BY JobFacts, RuntimeAssumption DEF Init, TypeOK

\* Every command, sweep and crash keeps the maps and commands well formed.
LEMMA TypeStep == PairsInv /\ [Next]_vars => TypeOK'
<1> SUFFICES ASSUME PairsInv, TypeOK, [Next]_vars PROVE TypeOK'
  BY DEF PairsInv
<1> USE RuntimeAssumption DEF maps, procs, sweep, starts
<1>1. ASSUME NEW c \in Starts, NEW k \in Pairs, RequestPair(c, k)
      PROVE  TypeOK'
  <2>1. job' \in [Starts -> Jobs] /\ fresh' \in SUBSET Starts
    BY <1>1, Moved
    DEF TypeOK, RequestPair, Snapshot
  <2> QED
    BY <1>1, <2>1 DEF TypeOK, RequestPair, StoreFree, Running
<1>2. ASSUME NEW c \in Starts, NEW a \in Agents, RequestLocal(c, a)
      PROVE  TypeOK'
  <2>1. job' \in [Starts -> Jobs] /\ fresh' \in SUBSET Starts
    BY <1>2, Moved, PairFacts
    DEF TypeOK, RequestLocal, Snapshot
  <2> QED
    BY <1>2, <2>1 DEF TypeOK, RequestLocal, Exited, Synced, AgentsOf,
                      StoreFree, Running
<1>3. ASSUME NEW c \in Starts, PreflightFailed(c)
      PROVE  TypeOK'
  <2>1. job' \in [Starts -> Jobs] /\ fresh' \in SUBSET Starts
    BY <1>3, SavedFacts
    DEF TypeOK, PreflightFailed, Over
  <2> QED
    BY <1>3, <2>1 DEF TypeOK, PreflightFailed, Over
<1>4. ASSUME NEW c \in Starts, EnterPair(c)
      PROVE  TypeOK'
  <2>1. /\ job[c].kind \in {"pair", "local"} /\ job[c].pid \in {0} \cup Pids
        /\ job[c].launch \in Pairs /\ job[c].key \in Pairs
    BY <1>4, AtWork DEF EnterPair
  <2>2. CASE Over(c)
    BY <1>4, <2>2, SavedFacts DEF TypeOK, EnterPair, Over
  <2>3. CASE job' = At(c, "entered") /\ fresh' = fresh
    <3>1. job' \in [Starts -> Jobs]
      BY <2>1, <2>3, Moved DEF At
    <3> QED
      BY <1>4, <2>3, <3>1 DEF TypeOK, EnterPair
  <2> QED
    BY <1>4, <2>2, <2>3 DEF EnterPair
<1>5. ASSUME NEW c \in Starts, StartPair(c)
      PROVE  TypeOK'
  <2>1. /\ job[c].kind \in {"pair", "local"} /\ job[c].pid \in {0} \cup Pids
        /\ job[c].launch \in Pairs /\ job[c].key \in Pairs
    BY <1>5, AtWork DEF StartPair
  <2>2. CASE Over(c)
    <3>1. job' \in [Starts -> Jobs] /\ fresh' \in SUBSET Starts
      BY <2>2, SavedFacts DEF Over
    <3> QED
      BY <1>5, <2>1, <3>1 DEF TypeOK, StartPair
  <2>3. CASE job' = At(c, "spawn") /\ fresh' = fresh
    <3>1. job' \in [Starts -> Jobs]
      BY <2>1, <2>3, Moved DEF At
    <3> QED
      BY <1>5, <2>1, <2>3, <3>1 DEF TypeOK, StartPair
  <2> QED
    BY <1>5, <2>2, <2>3 DEF StartPair
<1>6. ASSUME NEW c \in Starts, StartLocal(c)
      PROVE  TypeOK'
  <2> DEFINE k == <<job[c].key[1], active>>
  <2>1. /\ job[c].launch \in Pairs /\ k \in Pairs
    BY <1>6, AtWork, PairFacts DEF StartLocal, TypeOK
  <2> HIDE DEF k
  <2>2. CASE Over(c)
    <3>1. job' \in [Starts -> Jobs] /\ fresh' \in SUBSET Starts
      BY <2>2, SavedFacts DEF Over
    <3> QED
      BY <1>6, <2>1, <3>1 DEF TypeOK, StartLocal, k
  <2>3. CASE /\ job' = [job EXCEPT ![c] = Job("local", "spawn", job[c].launch, k, 0)]
             /\ fresh' = fresh
    <3>1. job' \in [Starts -> Jobs]
      BY <2>1, <2>3, Moved
    <3> QED
      BY <1>6, <2>1, <2>3, <3>1 DEF TypeOK, StartLocal, k
  <2> QED
    BY <1>6, <2>2, <2>3 DEF StartLocal, k
<1>7. ASSUME NEW c \in Starts, Spawn(c)
      PROVE  TypeOK'
  <2>1. /\ job[c].kind \in {"pair", "local"}
        /\ job[c].launch \in Pairs /\ job[c].key \in Pairs
    BY <1>7, AtWork DEF Spawn
  <2>2. spawned + 1 \in Pids /\ spawned + 1 \in 0..MaxPid
    BY <1>7 DEF TypeOK, Spawn, Pids
  <2>3. job' \in [Starts -> Jobs]
    BY <1>7, <2>1, <2>2, Moved DEF Spawn
  <2>4. pairOf' \in [Pids -> Pairs \cup {NoPair}]
    BY <1>7, <2>1, <2>2 DEF TypeOK, Spawn
  <2> QED
    BY <1>7, <2>2, <2>3, <2>4 DEF TypeOK, Spawn
<1>8. ASSUME NEW c \in Starts, SpawnFailed(c)
      PROVE  TypeOK'
  <2>1. job' \in [Starts -> Jobs] /\ fresh' \in SUBSET Starts
    BY <1>8, SavedFacts, AtWork
    DEF TypeOK, SpawnFailed, Over
  <2> QED
    BY <1>8, <2>1, AtWork DEF TypeOK, SpawnFailed, Over
<1>9. ASSUME NEW c \in Starts, StabilizeFailed(c)
      PROVE  TypeOK'
  <2>1. job' \in [Starts -> Jobs] /\ fresh' \in SUBSET Starts
    BY <1>9, SavedFacts, AtWork
    DEF TypeOK, StabilizeFailed
  <2> QED
    BY <1>9, <2>1, AtWork DEF TypeOK, StabilizeFailed
<1>10. ASSUME NEW c \in Starts, ReceiptFailed(c)
      PROVE  TypeOK'
  <2>1. job' \in [Starts -> Jobs] /\ fresh' \in SUBSET Starts
    BY <1>10, SavedFacts, AtWork
    DEF TypeOK, ReceiptFailed, Over
  <2> QED
    BY <1>10, <2>1, AtWork DEF TypeOK, ReceiptFailed, Over
<1>11. ASSUME NEW c \in Starts, Register(c)
      PROVE  TypeOK'
  <2>1. job[c].key \in Pairs /\ job[c].pid \in {0} \cup Pids
    BY <1>11, AtWork DEF Register
  <2>2. job' \in [Starts -> Jobs] /\ fresh' \in SUBSET Starts
    BY <1>11, SavedFacts DEF Register
  <2>3. job[c].pid \in Pids
    BY <1>11, <2>1 DEF PairsInv, StartInv, Register, Pids, TypeOK
  <2> QED
    BY <1>11, <2>1, <2>2, <2>3 DEF TypeOK, Register
<1>12. ASSUME NEW k \in Pairs, StopRuntime(k)
      PROVE  TypeOK'
  <2>1. job' \in [Starts -> Jobs] /\ fresh' \in SUBSET Starts
    BY <1>12, SavedFacts
    DEF TypeOK, StopRuntime
  <2> QED
    BY <1>12, <2>1 DEF TypeOK, StopRuntime, StoreFree, TransitionFree,
                       Running
<1>13. ASSUME NEW a \in Agents, StopWorkspace(a)
      PROVE  TypeOK'
  <2>1. job' \in [Starts -> Jobs] /\ fresh' \in SUBSET Starts
    BY <1>13, SavedFacts
    DEF TypeOK, StopWorkspace
  <2> QED
    BY <1>13, <2>1 DEF TypeOK, StopWorkspace, Exited, Synced, AgentsOf,
                       StoreFree, Running
<1>14. ASSUME NEW a \in Agents, NEW failed \in SUBSET ({a} \X Groups), Drain(a, failed)
      PROVE  TypeOK'
  <2>1. job' \in [Starts -> Jobs] /\ fresh' \in SUBSET Starts
    BY <1>14, SavedFacts
    DEF TypeOK, Drain
  <2> QED
    BY <1>14, <2>1 DEF TypeOK, Drain, StoreFree, Running
<1>15. ASSUME NEW a \in Agents, EditRecord(a)
      PROVE  TypeOK'
  <2>1. job' \in [Starts -> Jobs] /\ fresh' \in SUBSET Starts
    BY <1>15, SavedFacts DEF EditRecord
  <2> QED
    BY <1>15, <2>1 DEF TypeOK, EditRecord, Synced
<1>16. CASE ListRuntimes
  <2>1. job' \in [Starts -> Jobs] /\ fresh' \in SUBSET Starts
    BY <1>16, SavedFacts
    DEF TypeOK, ListRuntimes
  <2> QED
    BY <1>16, <2>1 DEF TypeOK, ListRuntimes, Exited, Synced, AgentsOf,
                       StoreFree, TransitionFree, Running
<1>17. ASSUME NEW k \in Pairs, MonitorTerminates(k)
      PROVE  TypeOK'
  BY <1>17 DEF TypeOK, MonitorTerminates, StoreFree, Running
<1>18. ASSUME NEW g \in Groups, SetActiveGroup(g)
      PROVE  TypeOK'
  BY <1>18 DEF TypeOK, SetActiveGroup, Running
<1>19. CASE SweepSnapshot
  BY <1>19 DEF TypeOK, SweepSnapshot, StoreFree, Running
<1>20. CASE SweepScan
  BY <1>20 DEF TypeOK, SweepScan, Running
<1>21. ASSUME NEW p \in Pids, HarnessExit(p)
      PROVE  TypeOK'
  BY <1>21 DEF TypeOK, HarnessExit
<1>22. CASE ShutdownBegin
  BY <1>22 DEF TypeOK, ShutdownBegin
<1>23. CASE ShutdownLock
  BY <1>23 DEF TypeOK, ShutdownLock, TransitionFree
<1>24. CASE ShutdownSweep
  BY <1>24 DEF TypeOK, ShutdownSweep, StoreFree
<1>25. CASE DesktopExit
  <2>1. job' \in [Starts -> Jobs] /\ fresh' \in SUBSET Starts
    BY <1>25, JobFacts
    DEF TypeOK, DesktopExit, DesktopGone
  <2> QED
    BY <1>25, <2>1 DEF TypeOK, DesktopExit, DesktopGone
<1>26. CASE DesktopCrash
  <2>1. job' \in [Starts -> Jobs] /\ fresh' \in SUBSET Starts
    BY <1>26, JobFacts
    DEF TypeOK, DesktopCrash, DesktopGone
  <2> QED
    BY <1>26, <2>1 DEF TypeOK, DesktopCrash, Running, DesktopGone
<1>27. CASE DesktopBoot
  BY <1>27 DEF TypeOK, DesktopBoot
<1>28. CASE UNCHANGED vars
  BY <1>28 DEF TypeOK, vars
<1> QED
  BY <1>1, <1>2, <1>3, <1>4, <1>5, <1>6, <1>7, <1>8, <1>9, <1>10, <1>11,
     <1>12, <1>13, <1>14, <1>16, <1>17, <1>18, <1>19, <1>20, <1>21, <1>22,
     <1>23, <1>24, <1>25, <1>26, <1>27, <1>28, <1>15
  DEF Next, Command, Start

\* A step that only takes away keeps the invariant: processes end, entries of
\* the map and receipts go, a receipt only with the entry, commands leave the
\* locks.
LEMMA TakeAway ==
  ASSUME PairsInv, TypeOK', alive' \subseteq alive,
         UNCHANGED <<pairOf, spawned, registered, sweep>>,
         \A d \in Starts : job'[d] = job[d] \/ job'[d].at \notin {"spawn", "stabilize"},
         \A k \in Pairs : tracked'[k] = 0 \/ tracked'[k] = tracked[k],
         \A k \in Pairs : receipt'[k] = receipt[k] \/ (receipt'[k] = 0 /\ tracked'[k] = 0)
  PROVE  PairsInv'
<1> USE DEF PairsInv, TypeOK, sweep
<1>1. MutexInv'
  BY DEF MutexInv, InStore
<1>2. StartInv'
  BY JobFacts DEF StartInv, InStore
<1>3. PidInv'
  BY DEF PidInv
<1>4. SweepInv'
  BY DEF SweepInv, Current, PidInv
<1>5. TrackedIsReceipted' /\ TrackedRunsItsPair'
  BY DEF TrackedIsReceipted, TrackedRunsItsPair
<1> QED
  BY <1>1, <1>2, <1>3, <1>4, <1>5

-----------------------------------------------------------------------------
(* Every step keeps the invariant.                                         *)

\* So does a start that takes the store lock and empties its pair's entry.
LEMMA TakeStore ==
  ASSUME PairsInv, TypeOK', NEW c \in Starts, NEW k \in Pairs, StoreFree,
         alive' \subseteq alive, UNCHANGED <<pairOf, spawned, registered, sweep>>,
         job'[c].at = "spawn", job'[c].key = k,
         \A d \in Starts \ {c} : job'[d] = job[d],
         tracked' = [tracked EXCEPT ![k] = 0],
         \A m \in Pairs : receipt'[m] = receipt[m] \/ (receipt'[m] = 0 /\ m = k)
  PROVE  PairsInv'
<1> USE DEF PairsInv, TypeOK, sweep
<1>1. MutexInv'
  BY DEF MutexInv, InStore, StoreFree
<1>2. StartInv'
  <2>1. InStore(c)' => tracked'[job'[c].key] = 0 /\ job'[c].at # "stabilize"
    OBVIOUS
  <2>2. \A d \in Starts \ {c} : ~InStore(d)'
    BY DEF InStore, StoreFree
  <2> QED
    BY <2>1, <2>2 DEF StartInv, InStore
<1>3. PidInv'
  BY DEF PidInv
<1>4. SweepInv'
  BY DEF SweepInv, Current, PidInv
<1>5. TrackedIsReceipted' /\ TrackedRunsItsPair'
  BY DEF TrackedIsReceipted, TrackedRunsItsPair
<1> QED
  BY <1>1, <1>2, <1>3, <1>4, <1>5

\* A command that only waited, or that ends, takes nothing.
LEMMA PairsStepStart ==
  ASSUME PairsInv, TypeOK', NEW c \in Starts, Start(c)
  PROVE  PairsInv'
<1> USE DEF maps, procs, sweep, starts
<1>0. TypeOK
  BY DEF PairsInv
<1>1. CASE PreflightFailed(c)
  BY <1>1, SavedFacts, TakeAway DEF PairsInv, PreflightFailed, Over
<1>2. CASE EnterPair(c)
  <2>1. CASE Over(c)
    BY <1>2, <2>1, SavedFacts, TakeAway DEF PairsInv, EnterPair, Over
  <2>2. CASE job' = At(c, "entered")
    <3>1. \A d \in Starts : job'[d] = job[d] \/ job'[d].at = "entered"
      BY <1>2, <2>2, JobFacts DEF EnterPair, At, PairsInv, TypeOK
    <3> QED
      BY <1>2, <3>1, TakeAway DEF EnterPair
  <2> QED
    BY <1>2, <2>1, <2>2 DEF EnterPair
<1>5. CASE StartPair(c)
  <2>1. /\ job[c].kind \in {"pair", "local"} /\ job[c].pid \in {0} \cup Pids
        /\ job[c].launch \in Pairs /\ job[c].key \in Pairs
    BY <1>5, AtWork DEF StartPair, PairsInv
  <2>2. CASE Over(c)
    <3>1. \A d \in Starts : job'[d] = job[d] \/ job'[d].at = "idle"
      BY <2>2, SavedFacts DEF Over, PairsInv
    <3>2. /\ UNCHANGED <<pairOf, spawned, registered, sweep>>
          /\ alive' \subseteq alive
      BY <1>5 DEF StartPair
    <3>3. \A k \in Pairs : tracked'[k] = 0 \/ tracked'[k] = tracked[k]
      BY <1>5, <2>1 DEF StartPair, PairsInv, TypeOK
    <3>4. \A k \in Pairs : receipt'[k] = receipt[k] \/ (receipt'[k] = 0 /\ tracked'[k] = 0)
      BY <1>5, <2>1 DEF StartPair, PairsInv, TypeOK
    <3> QED
      BY <3>1, <3>2, <3>3, <3>4, TakeAway
  <2>3. CASE job' = At(c, "spawn")
    <3>1. /\ job'[c].at = "spawn" /\ job'[c].key = job[c].key
          /\ \A d \in Starts \ {c} : job'[d] = job[d]
      BY <1>0, <2>3, JobFacts DEF At, TypeOK
    <3>2. /\ StoreFree /\ UNCHANGED <<pairOf, spawned, registered, sweep>>
          /\ alive' \subseteq alive
      BY <1>5 DEF StartPair
    <3>3. c \in fresh /\ tracked[job[c].key] \notin alive
      <4> SUFFICES ASSUME Over(c) PROVE FALSE
        BY <1>5 DEF StartPair
      <4>1. job'[c].at = "idle"
        BY SavedFacts DEF Over, PairsInv
      <4> QED
        BY <3>1, <4>1
    <3>4. tracked' = [tracked EXCEPT ![job[c].key] = 0]
      BY <1>5, <3>3 DEF StartPair
    <3>5. \A m \in Pairs :
            receipt'[m] = receipt[m] \/ (receipt'[m] = 0 /\ m = job[c].key)
      BY <1>5, <2>1, <3>3 DEF StartPair, PairsInv, TypeOK
    <3> QED
      BY <2>1, <3>1, <3>2, <3>4, <3>5, TakeStore
  <2> QED
    BY <1>5, <2>2, <2>3 DEF StartPair
<1>6. CASE StartLocal(c)
  <2> DEFINE k == <<job[c].key[1], active>>
  <2>1. job[c].launch \in Pairs /\ k \in Pairs
    BY <1>6, AtWork, PairFacts DEF StartLocal, TypeOK, PairsInv
  <2>0. /\ StoreFree /\ UNCHANGED <<pairOf, spawned, registered, sweep>>
        /\ alive' \subseteq alive
    BY <1>6 DEF StartLocal
  <2> HIDE DEF k
  <2>2. CASE Over(c) /\ UNCHANGED maps
    <3>1. \A d \in Starts : job'[d] = job[d] \/ job'[d].at = "idle"
      BY <2>2, SavedFacts DEF Over, PairsInv
    <3> QED
      BY <2>0, <2>2, <3>1, TakeAway
  <2>3. CASE /\ job' = [job EXCEPT ![c] = Job("local", "spawn", job[c].launch, k, 0)]
             /\ tracked' = [tracked EXCEPT ![k] = 0]
             /\ receipt' = IF tracked[k] = 0 THEN receipt
                           ELSE [receipt EXCEPT ![k] = 0]
    <3>1. /\ job'[c].at = "spawn" /\ job'[c].key = k
          /\ \A d \in Starts \ {c} : job'[d] = job[d]
      BY <1>0, <2>3, JobFacts DEF TypeOK
    <3>2. \A m \in Pairs : receipt'[m] = receipt[m] \/ (receipt'[m] = 0 /\ m = k)
      BY <2>1, <2>3 DEF PairsInv, TypeOK
    <3> QED
      BY <2>0, <2>1, <2>3, <3>1, <3>2, TakeStore
  <2> QED
    BY <1>6, <2>2, <2>3 DEF StartLocal, k
<1>7. CASE Spawn(c)
  <2>1. /\ job[c].kind \in {"pair", "local"}
        /\ job[c].launch \in Pairs /\ job[c].key \in Pairs
    BY <1>0, <1>7, AtWork DEF Spawn
  <2>2. spawned + 1 \in Pids /\ spawned \in Nat /\ spawned' = spawned + 1
    BY <1>0, <1>7, RuntimeAssumption DEF TypeOK, Spawn, Pids
  <2>3. /\ job'[c].at = "stabilize" /\ job'[c].key = job[c].key
        /\ job'[c].pid = spawned + 1 /\ job'[c].kind = job[c].kind
        /\ \A d \in Starts \ {c} : job'[d] = job[d]
    BY <1>0, <1>7, JobFacts DEF Spawn, TypeOK
  <2>4. /\ UNCHANGED <<tracked, receipt, registered, sweep>>
        /\ alive' = alive \cup {spawned + 1}
        /\ job[c].at = "spawn" /\ job[c].launch = job[c].key
    BY <1>7 DEF Spawn
  <2>5. /\ pairOf'[spawned + 1] = job[c].key
        /\ \A p \in 1..spawned : pairOf'[p] = pairOf[p]
    BY <1>0, <1>7, <2>1, <2>2 DEF Spawn, TypeOK, Pids
  <2> USE DEF PairsInv
  <2>6. MutexInv'
    BY <2>3, <2>4 DEF MutexInv, InStore
  <2>7. StartInv'
    <3> SUFFICES ASSUME NEW d \in Starts
                 PROVE  /\ InStore(d)' => tracked'[job'[d].key] = 0
                        /\ job'[d].at = "stabilize" =>
                             /\ job'[d].pid \in 1..spawned'
                             /\ pairOf'[job'[d].pid] = job'[d].key
      BY DEF StartInv
    <3>1. CASE d = c
      BY <2>2, <2>3, <2>4, <2>5, <3>1 DEF StartInv, InStore
    <3>2. CASE d # c
      BY <2>2, <2>3, <2>4, <2>5, <3>2 DEF StartInv, InStore
    <3> QED
      BY <3>1, <3>2
  <2>8. PidInv'
    BY <2>2, <2>4 DEF PidInv, sweep
  <2>9. SweepInv'
    <3> SUFFICES ASSUME tick' = "scan", NEW p \in prevOrphans' \ skip'
                 PROVE  ~Current(p)'
      BY DEF SweepInv
    <3>0. p \in prevOrphans \ skip /\ tick = "scan"
      BY <2>4 DEF sweep
    <3>1. p # spawned + 1 /\ ~Current(p)
      <4>1. p \in 1..spawned
        BY <3>0 DEF PidInv
      <4>2. ~Current(p)
        BY <3>0 DEF SweepInv
      <4> QED
        BY <2>2, <4>1, <4>2
    <3>2. \A d \in Starts : ~(job'[d].at = "stabilize" /\ job'[d].pid = p)
      BY <2>3, <3>1 DEF Current
    <3> QED
      BY <2>4, <3>1, <3>2 DEF Current
  <2>10. TrackedIsReceipted' /\ TrackedRunsItsPair'
    <3>1. \A k \in Pairs : tracked[k] # 0 => tracked[k] \in 1..spawned
      BY <2>2 DEF PidInv
    <3> QED
      BY <2>4, <2>5, <3>1 DEF TrackedIsReceipted, TrackedRunsItsPair
  <2> QED
    BY <2>6, <2>7, <2>8, <2>9, <2>10
<1>8. CASE SpawnFailed(c)
  <2>1. job[c].key \in Pairs
    BY <1>8, AtWork DEF SpawnFailed, PairsInv
  <2>2. tracked[job[c].key] = 0
    BY <1>8 DEF SpawnFailed, PairsInv, StartInv, InStore
  <2>3. \A k \in Pairs : receipt'[k] = receipt[k] \/ (receipt'[k] = 0 /\ tracked'[k] = 0)
    BY <1>8, <2>1, <2>2 DEF SpawnFailed, PairsInv, TypeOK
  <2>4. \A d \in Starts : job'[d] = job[d] \/ job'[d].at = "idle"
    BY <1>8, SavedFacts DEF SpawnFailed, PairsInv, Over
  <2> QED
    BY <1>8, <2>3, <2>4, TakeAway DEF SpawnFailed
<1>9. CASE StabilizeFailed(c)
  <2>1. job[c].key \in Pairs
    BY <1>9, AtWork DEF StabilizeFailed, PairsInv
  <2>2. tracked[job[c].key] = 0
    BY <1>9 DEF StabilizeFailed, PairsInv, StartInv, InStore
  <2>3. \A k \in Pairs : receipt'[k] = receipt[k] \/ (receipt'[k] = 0 /\ tracked'[k] = 0)
    BY <1>9, <2>1, <2>2 DEF StabilizeFailed, PairsInv, TypeOK
  <2>4. \A d \in Starts : job'[d] = job[d] \/ job'[d].at = "idle"
    BY <1>9, SavedFacts DEF StabilizeFailed, PairsInv
  <2> QED
    BY <1>9, <2>3, <2>4, TakeAway DEF StabilizeFailed
<1>10. CASE ReceiptFailed(c)
  <2>1. job[c].key \in Pairs
    BY <1>10, AtWork DEF ReceiptFailed, PairsInv
  <2>2. tracked[job[c].key] = 0
    BY <1>10 DEF ReceiptFailed, PairsInv, StartInv, InStore
  <2>3. \A k \in Pairs : receipt'[k] = receipt[k] \/ (receipt'[k] = 0 /\ tracked'[k] = 0)
    BY <1>10, <2>1, <2>2 DEF ReceiptFailed, PairsInv, TypeOK
  <2>4. \A d \in Starts : job'[d] = job[d] \/ job'[d].at = "idle"
    BY <1>10, SavedFacts DEF ReceiptFailed, PairsInv, Over
  <2> QED
    BY <1>10, <2>3, <2>4, TakeAway DEF ReceiptFailed
<1>11. CASE Register(c)
  <2> USE DEF PairsInv
  <2>1. /\ job[c].key \in Pairs /\ job[c].pid \in 1..spawned
        /\ pairOf[job[c].pid] = job[c].key /\ job[c].at = "stabilize"
    BY <1>11, AtWork DEF Register, StartInv
  <2>2. /\ \A d \in Starts : job'[d] = job[d] \/ job'[d].at = "idle"
        /\ job'[c].at = "idle"
    BY <1>11, SavedFacts DEF Register
  <2>3. /\ UNCHANGED <<alive, pairOf, spawned, sweep>>
        /\ registered' = registered \cup {job[c].pid}
    BY <1>11 DEF Register
  <2>4. /\ tracked'[job[c].key] = job[c].pid /\ receipt'[job[c].key] = job[c].pid
        /\ \A k \in Pairs \ {job[c].key} :
             tracked'[k] = tracked[k] /\ receipt'[k] = receipt[k]
    BY <1>11, <2>1 DEF Register, TypeOK
  <2>5. MutexInv' /\ \A d \in Starts : ~InStore(d)'
    BY <2>1, <2>2 DEF MutexInv, InStore
  <2>6. StartInv'
    BY <2>5 DEF StartInv, InStore
  <2>7. PidInv'
    <3>1. \A k \in Pairs : tracked'[k] \in 0..spawned /\ receipt'[k] \in 0..spawned
      BY <2>1, <2>4 DEF PidInv, TypeOK
    <3> QED
      BY <2>1, <2>3, <3>1 DEF PidInv
  <2>8. SweepInv'
    BY <2>1, <2>2, <2>3, <2>4 DEF SweepInv, Current
  <2>9. TrackedIsReceipted' /\ TrackedRunsItsPair'
    BY <2>1, <2>3, <2>4 DEF TrackedIsReceipted, TrackedRunsItsPair
  <2> QED
    BY <2>5, <2>6, <2>7, <2>8, <2>9
<1> QED
  BY <1>1, <1>2, <1>5, <1>6, <1>7, <1>8, <1>9, <1>10, <1>11 DEF Start

\* Stops, lists, sweeps, exits and the life of the desktop keep it too.
LEMMA PairsStep == PairsInv /\ [Next]_vars => PairsInv'
<1> SUFFICES ASSUME PairsInv, [Next]_vars PROVE PairsInv'
  OBVIOUS
<1> USE DEF maps, procs, sweep, starts
<1>0. TypeOK /\ TypeOK'
  BY TypeStep DEF PairsInv
<1>1. ASSUME NEW c \in Starts, NEW k \in Pairs, RequestPair(c, k)
      PROVE  PairsInv'
  <2>1. \A d \in Starts : job'[d] = job[d] \/ job'[d].at = "preflight"
    BY <1>0, <1>1, JobFacts DEF RequestPair, Snapshot, TypeOK
  <2> QED
    BY <1>0, <1>1, <2>1, TakeAway DEF RequestPair
<1>2. ASSUME NEW c \in Starts, NEW a \in Agents, RequestLocal(c, a)
      PROVE  PairsInv'
  <2>1. \A d \in Starts : job'[d] = job[d] \/ job'[d].at = "preflight"
    BY <1>0, <1>2, JobFacts DEF RequestLocal, Snapshot, TypeOK
  <2>2. \A k \in Pairs : tracked'[k] = 0 \/ tracked'[k] = tracked[k]
    BY <1>2 DEF RequestLocal, Synced
  <2> QED
    BY <1>0, <1>2, <2>1, <2>2, TakeAway DEF RequestLocal
<1>3. ASSUME NEW c \in Starts, Start(c)
      PROVE  PairsInv'
  BY <1>0, <1>3, PairsStepStart
<1>4. ASSUME NEW k \in Pairs, StopRuntime(k)
      PROVE  PairsInv'
  <2>1. \A d \in Starts : job'[d] = job[d] \/ job'[d].at = "idle"
    BY <1>0, <1>4, SavedFacts DEF StopRuntime
  <2>2. \A m \in Pairs :
          /\ tracked'[m] = 0 \/ tracked'[m] = tracked[m]
          /\ receipt'[m] = receipt[m] \/ (receipt'[m] = 0 /\ tracked'[m] = 0)
    BY <1>0, <1>4 DEF StopRuntime, TypeOK
  <2> QED
    BY <1>0, <1>4, <2>1, <2>2, TakeAway DEF StopRuntime
<1>5. ASSUME NEW a \in Agents, StopWorkspace(a)
      PROVE  PairsInv'
  <2>1. \A d \in Starts : job'[d] = job[d] \/ job'[d].at = "idle"
    BY <1>0, <1>5, SavedFacts DEF StopWorkspace
  <2>2. \A m \in Pairs :
          /\ tracked'[m] = 0 \/ tracked'[m] = tracked[m]
          /\ receipt'[m] = receipt[m] \/ (receipt'[m] = 0 /\ tracked'[m] = 0)
    BY <1>0, <1>5, PairFacts DEF StopWorkspace, Synced, TypeOK
  <2>3. alive' \subseteq alive /\ UNCHANGED <<pairOf, spawned, registered, sweep>>
    BY <1>5 DEF StopWorkspace
  <2> QED
    BY <1>0, <2>1, <2>2, <2>3, TakeAway
<1>6. ASSUME NEW a \in Agents, NEW failed \in SUBSET ({a} \X Groups),
             Drain(a, failed)
      PROVE  PairsInv'
  <2>1. \A d \in Starts : job'[d] = job[d] \/ job'[d].at = "idle"
    BY <1>0, <1>6, SavedFacts DEF Drain
  <2>2. \A m \in Pairs :
          /\ tracked'[m] = 0 \/ tracked'[m] = tracked[m]
          /\ receipt'[m] = receipt[m] \/ (receipt'[m] = 0 /\ tracked'[m] = 0)
    BY <1>6 DEF Drain
  <2>3. alive' \subseteq alive /\ UNCHANGED <<pairOf, spawned, registered, sweep>>
    BY <1>6 DEF Drain
  <2> QED
    BY <1>0, <2>1, <2>2, <2>3, TakeAway
<1>7. CASE ListRuntimes
  <2>1. \A d \in Starts : job'[d] = job[d] \/ job'[d].at = "idle"
    BY <1>0, <1>7, SavedFacts DEF ListRuntimes
  <2>2. \A m \in Pairs :
          /\ tracked'[m] = 0 \/ tracked'[m] = tracked[m]
          /\ receipt'[m] = receipt[m] \/ (receipt'[m] = 0 /\ tracked'[m] = 0)
    BY <1>7 DEF ListRuntimes, Synced
  <2> QED
    BY <1>0, <1>7, <2>1, <2>2, TakeAway DEF ListRuntimes
<1>8. ASSUME NEW k \in Pairs, MonitorTerminates(k)
      PROVE  PairsInv'
  BY <1>0, <1>8, TakeAway DEF MonitorTerminates
<1>9. ASSUME NEW a \in Agents, EditRecord(a)
       PROVE  PairsInv'
  <2>1. \A d \in Starts : job'[d] = job[d] \/ job'[d].at = "idle"
    BY <1>0, <1>9, SavedFacts DEF EditRecord
  <2>2. \A k \in Pairs : tracked'[k] = 0 \/ tracked'[k] = tracked[k]
    BY <1>9 DEF EditRecord, Synced
  <2> QED
    BY <1>0, <1>9, <2>1, <2>2, TakeAway DEF EditRecord
<1>10. CASE SweepSnapshot
  <2>1. SweepInv'
    <3> SUFFICES ASSUME NEW p \in prevOrphans' \ skip' PROVE ~Current(p)'
      BY DEF SweepInv
    <3> QED
      BY <1>10 DEF SweepSnapshot, Current, StoreFree, InStore
  <2> QED
    BY <1>0, <1>10, <2>1 DEF SweepSnapshot, PairsInv, MutexInv, StartInv, InStore,
         PidInv, TrackedIsReceipted, TrackedRunsItsPair
<1>11. CASE SweepScan
  <2>1. SweepInv'
    BY <1>11 DEF SweepScan, SweepInv
  <2>2. PidInv'
    BY <1>11 DEF SweepScan, PidInv, PairsInv
  <2> QED
    BY <1>0, <1>11, <2>1, <2>2 DEF SweepScan, PairsInv, MutexInv, StartInv,
         InStore, TrackedIsReceipted, TrackedRunsItsPair
<1>12. ASSUME NEW p \in Pids, HarnessExit(p)
       PROVE  PairsInv'
  BY <1>0, <1>12, TakeAway DEF HarnessExit
<1>13. CASE ShutdownSweep
  <2>1. \A m \in Pairs : tracked'[m] = 0 /\ receipt'[m] = 0
    BY <1>13 DEF ShutdownSweep
  <2> QED
    BY <1>0, <1>13, <2>1, TakeAway DEF ShutdownSweep
<1>14. CASE DesktopGone
  <2>1. \A d \in Starts : job'[d].at = "idle"
    BY <1>14, JobFacts DEF DesktopGone
  <2>2. \A k \in Pairs : tracked'[k] = 0
    BY <1>14 DEF DesktopGone
  <2>3. MutexInv' /\ StartInv'
    BY <2>1 DEF MutexInv, StartInv, InStore
  <2>4. PidInv'
    BY <1>0, <1>14, <2>2 DEF PairsInv, PidInv, DesktopGone, TypeOK
  <2>5. SweepInv'
    BY <1>14 DEF SweepInv, DesktopGone
  <2> QED
    BY <1>0, <2>2, <2>3, <2>4, <2>5
    DEF PairsInv, TrackedIsReceipted, TrackedRunsItsPair
<1>15. CASE UNCHANGED <<maps, procs, starts, sweep>>
  BY <1>0, <1>15 DEF PairsInv, MutexInv, StartInv, PidInv, SweepInv, InStore,
       Current, TrackedIsReceipted, TrackedRunsItsPair
<1> QED
  BY <1>1, <1>2, <1>3, <1>4, <1>5, <1>6, <1>7, <1>8, <1>10, <1>11, <1>12,
     <1>13, <1>14, <1>15, <1>9
  DEF Next, Command, SetActiveGroup, ShutdownBegin, ShutdownLock, DesktopExit,
      DesktopCrash, DesktopBoot, vars

\* The desktop starts with nothing running, tracked or receipted.
LEMMA PairsInit == Init => PairsInv
<1> SUFFICES ASSUME Init PROVE PairsInv
  OBVIOUS
<1>1. TypeOK
  BY TypeInit
<1>2. \A c \in Starts : job[c].at = "idle"
  BY JobFacts DEF Init
<1>3. MutexInv /\ StartInv /\ SweepInv
  BY <1>2 DEF Init, MutexInv, StartInv, SweepInv, InStore
<1>4. PidInv /\ TrackedIsReceipted /\ TrackedRunsItsPair
  BY DEF Init, PidInv, TrackedIsReceipted, TrackedRunsItsPair
<1> QED
  BY <1>1, <1>3, <1>4 DEF PairsInv

\* The invariant holds in every state: whatever starts, stops, sweeps, crashes
\* and restarts of the desktop come in whatever order.
THEOREM PairsInductive == Spec => []PairsInv
BY PairsInit, PairsStep, PTL DEF Spec

\* Type correctness of the runtime pairs: no interleaving of commands, sweeps,
\* crashes and restarts leaves the map, the receipts or a start malformed.
THEOREM PairsTypeCorrect == Spec => []TypeOK
<1>1. PairsInv => TypeOK
  BY DEF PairsInv
<1> QED
  BY <1>1, PairsInductive, PTL

\* What the desktop tracks it can find again: its receipt names the child.
THEOREM Receipted == Spec => []TrackedIsReceipted
<1>1. PairsInv => TrackedIsReceipted
  BY DEF PairsInv
<1> QED
  BY <1>1, PairsInductive, PTL

\* A child is tracked under the pair it was launched for.
THEOREM RightPair == Spec => []TrackedRunsItsPair
<1>1. PairsInv => TrackedRunsItsPair
  BY DEF PairsInv
<1> QED
  BY <1>1, PairsInductive, PTL

\* The periodic sweep never reaps a child that is tracked or being started.
THEOREM SweepSpares == Spec => SweepSparesCurrent
<1>1. PairsInv /\ [Next]_vars => [SweepScan => \A p \in alive \ alive' : ~Current(p)]_vars
  <2> SUFFICES ASSUME PairsInv, SweepScan, NEW p \in alive \ alive'
               PROVE  ~Current(p)
    OBVIOUS
  <2>1. tick = "scan" /\ p \in prevOrphans \ skip
    BY DEF SweepScan
  <2> QED
    BY <2>1 DEF PairsInv, SweepInv
<1> QED
  BY <1>1, PairsInductive, PTL DEF Spec, SweepSparesCurrent

-----------------------------------------------------------------------------
(* What holds when every start is a start_pair: the paths that take the    *)
(* transition lock and end the process an earlier session left.            *)

KindInv == \A c \in Starts : job[c].kind # "local"

\* From the store lock on, no process of an earlier session is receipted.
ClearInv == \A c \in Starts : InStore(c) => receipt[job[c].key] \notin alive

\* Shutdown and the starts exclude each other.
LockInv == app \in {"locking", "swept"} => \A c \in Starts : ~InTransition(c)

GoneInv ==
  /\ app \in {"off", "crashed"} => \A c \in Starts : job[c] = Idle
  /\ app \in {"swept", "off"} => alive = {}

RegisteredInv == \A p \in registered : pairOf[p] \in Pairs

\* The inductive invariant of the desktop without local starts.
FindInv ==
  /\ KindInv
  /\ ClearInv
  /\ LockInv
  /\ GoneInv
  /\ RegisteredInv
  /\ FindableWhileRunning

\* A step that only takes away, and a receipt only from a process that does
\* not run afterwards, keeps the invariant.
LEMMA FindTakeAway ==
  ASSUME PairsInv, FindInv, UNCHANGED <<app, pairOf, registered>>,
         alive' \subseteq alive,
         \A d \in Starts : job'[d] = job[d] \/ job'[d] = Idle,
         \A k \in Pairs : receipt'[k] = receipt[k]
                            \/ (receipt'[k] = 0 /\ receipt[k] \notin alive')
  PROVE  FindInv'
<1> USE DEF FindInv
<1>1. \A d \in Starts : job'[d] = Idle =>
        ~InStore(d)' /\ ~InTransition(d)' /\ job'[d].kind # "local"
  BY JobFacts DEF InStore, InTransition
<1>2. 0 \notin alive'
  BY DEF PairsInv, PidInv
<1>3. KindInv'
  BY <1>1 DEF KindInv
<1>4. ClearInv'
  <2> SUFFICES ASSUME NEW c \in Starts, InStore(c)'
               PROVE  receipt'[job'[c].key] \notin alive'
    BY DEF ClearInv
  <2>1. job'[c] = job[c]
    BY <1>1
  <2>2. InStore(c) /\ job[c].key \in Pairs
    BY <2>1, AtWork DEF InStore, PairsInv
  <2>3. receipt[job[c].key] \notin alive'
    BY <2>2 DEF ClearInv
  <2> QED
    BY <1>2, <2>1, <2>2, <2>3
<1>5. LockInv' /\ GoneInv'
  BY <1>1 DEF LockInv, GoneInv, InTransition
<1>6. RegisteredInv' /\ FindableWhileRunning'
  BY DEF RegisteredInv, FindableWhileRunning
<1> QED
  BY <1>3, <1>4, <1>5, <1>6

\* A start command of the locking kind keeps the invariant.
LEMMA FindStepStart ==
  ASSUME "local" \notin Kinds, PairsInv, FindInv, NEW c \in Starts, Start(c)
  PROVE  FindInv'
<1> USE DEF maps, procs, sweep, starts
<1>0. TypeOK /\ job[c].kind # "local"
  BY DEF PairsInv, FindInv, KindInv
<1>1. CASE PreflightFailed(c)
  <2>1. \A d \in Starts : job'[d] = job[d] \/ job'[d] = Idle
    BY <1>0, <1>1, SavedFacts DEF PreflightFailed, Over
  <2> QED
    BY <1>1, <2>1, FindTakeAway DEF PreflightFailed
<1>2. CASE EnterPair(c)
  <2>1. CASE Over(c)
    <3>1. \A d \in Starts : job'[d] = job[d] \/ job'[d] = Idle
      BY <1>0, <2>1, SavedFacts DEF Over
    <3> QED
      BY <1>2, <3>1, FindTakeAway DEF EnterPair
  <2>2. CASE app = "up" /\ job' = At(c, "entered")
    <3>1. /\ job'[c].at = "entered" /\ job'[c].kind = job[c].kind
          /\ \A d \in Starts \ {c} : job'[d] = job[d]
      BY <1>0, <2>2, JobFacts DEF At, TypeOK
    <3>2. UNCHANGED <<app, receipt, alive, pairOf, registered>>
      BY <1>2 DEF EnterPair
    <3>3. KindInv' /\ ClearInv'
      BY <3>1, <3>2 DEF FindInv, KindInv, ClearInv, InStore
    <3>4. LockInv' /\ GoneInv'
      BY <2>2, <3>2 DEF LockInv, GoneInv
    <3> QED
      BY <3>2, <3>3, <3>4 DEF FindInv, RegisteredInv, FindableWhileRunning
  <2> QED
    BY <1>2, <2>1, <2>2 DEF EnterPair
<1>3. CASE StartPair(c)
  <2>1. job[c].key \in Pairs /\ job[c].at = "entered" /\ job[c].kind = "pair"
    BY <1>0, <1>3, AtWork DEF StartPair
  <2>2. CASE Over(c)
    <3>1. /\ \A d \in Starts : job'[d] = job[d] \/ job'[d] = Idle
          /\ job'[c].at = "idle"
      BY <1>0, <2>2, SavedFacts DEF Over
    <3>2. job' # At(c, "spawn")
      BY <1>0, <3>1, JobFacts DEF At, TypeOK
    <3> QED
      BY <1>3, <3>1, <3>2, FindTakeAway DEF StartPair
  <2>3. CASE /\ job' = At(c, "spawn")
             /\ alive' = alive \ {receipt[job[c].key]}
             /\ receipt' = IF receipt[job[c].key] \in alive
                           THEN [receipt EXCEPT ![job[c].key] = 0] ELSE receipt
    <3> DEFINE k == job[c].key
    <3>1. /\ job'[c].at = "spawn" /\ job'[c].kind = job[c].kind /\ job'[c].key = k
          /\ \A d \in Starts \ {c} : job'[d] = job[d]
      BY <1>0, <2>3, JobFacts DEF At, TypeOK
    <3>2. UNCHANGED <<app, pairOf, registered>> /\ StoreFree
      BY <1>3 DEF StartPair
    <3>3. /\ receipt'[k] \notin alive' /\ alive' \subseteq alive
          /\ \A m \in Pairs \ {k} : receipt'[m] = receipt[m]
      BY <1>0, <2>1, <2>3 DEF PairsInv, PidInv, TypeOK
    <3>4. KindInv'
      BY <1>0, <3>1 DEF FindInv, KindInv
    <3>5. ClearInv'
      BY <3>1, <3>2, <3>3 DEF ClearInv, InStore, StoreFree
    <3>6. app \notin {"locking", "swept", "off", "crashed"}
      BY <2>1, JobFacts DEF FindInv, LockInv, GoneInv, InTransition
    <3>7. LockInv' /\ GoneInv'
      BY <3>2, <3>6 DEF LockInv, GoneInv
    <3>8. RegisteredInv' /\ FindableWhileRunning'
      BY <2>3, <3>2, <3>3 DEF FindInv, RegisteredInv, FindableWhileRunning
    <3> QED
      BY <3>4, <3>5, <3>7, <3>8 DEF FindInv
  <2> QED
    BY <1>3, <2>2, <2>3 DEF StartPair
<1>4. CASE StartLocal(c)
  BY <1>0, <1>4 DEF StartLocal
<1>5. CASE Spawn(c)
  <2>1. /\ job[c].key \in Pairs /\ job[c].at = "spawn" /\ job[c].kind = "pair"
        /\ InStore(c)
    BY <1>0, <1>5, AtWork DEF Spawn, InStore
  <2>2. spawned + 1 \in Pids /\ spawned \in Nat
    BY <1>0, <1>5, RuntimeAssumption DEF TypeOK, Spawn, Pids
  <2>3. /\ job'[c].at = "stabilize" /\ job'[c].key = job[c].key
        /\ job'[c].kind = job[c].kind
        /\ \A d \in Starts \ {c} : job'[d] = job[d]
    BY <1>0, <1>5, JobFacts DEF Spawn, TypeOK
  <2>4. /\ UNCHANGED <<app, receipt, registered>>
        /\ alive' = alive \cup {spawned + 1}
    BY <1>5 DEF Spawn
  <2>5. /\ \A p \in 1..spawned : pairOf'[p] = pairOf[p]
        /\ registered \subseteq 1..spawned
        /\ \A k \in Pairs : receipt[k] # spawned + 1
    BY <1>0, <1>5, <2>2 DEF Spawn, TypeOK, Pids, PairsInv, PidInv
  <2>6. KindInv'
    BY <1>0, <2>3 DEF FindInv, KindInv
  <2>7. ClearInv'
    <3> SUFFICES ASSUME NEW d \in Starts, InStore(d)'
                 PROVE  receipt'[job'[d].key] \notin alive'
      BY DEF ClearInv
    <3>1. InStore(d) /\ job'[d].key = job[d].key
      BY <2>1, <2>3 DEF InStore
    <3>2. job[d].key \in Pairs /\ receipt[job[d].key] \notin alive
      BY <1>0, <3>1, AtWork DEF FindInv, ClearInv, InStore
    <3> QED
      BY <2>4, <2>5, <3>1, <3>2
  <2>8. app \notin {"locking", "swept", "off", "crashed"}
    BY <2>1, JobFacts DEF FindInv, LockInv, GoneInv, InTransition
  <2>9. LockInv' /\ GoneInv'
    BY <2>4, <2>8 DEF LockInv, GoneInv
  <2>10. RegisteredInv' /\ FindableWhileRunning'
    <3>1. \A p \in registered : p # spawned + 1 /\ pairOf'[p] = pairOf[p]
      BY <2>2, <2>5
    <3> QED
      BY <2>4, <3>1 DEF FindInv, RegisteredInv, FindableWhileRunning
  <2> QED
    BY <2>6, <2>7, <2>9, <2>10 DEF FindInv
<1>6. CASE SpawnFailed(c)
  <2>1. job[c].kind = "pair"
    BY <1>0, <1>6, AtWork DEF SpawnFailed
  <2>2. \A d \in Starts : job'[d] = job[d] \/ job'[d] = Idle
    BY <1>0, <1>6, SavedFacts DEF SpawnFailed, Over
  <2> QED
    BY <1>6, <2>1, <2>2, FindTakeAway DEF SpawnFailed
<1>7. CASE StabilizeFailed(c)
  <2>1. job[c].key \in Pairs /\ InStore(c)
    BY <1>0, <1>7, AtWork DEF StabilizeFailed, InStore
  <2>2. \A d \in Starts : job'[d] = job[d] \/ job'[d] = Idle
    BY <1>0, <1>7, SavedFacts DEF StabilizeFailed
  <2>3. receipt[job[c].key] \notin alive
    BY <2>1 DEF FindInv, ClearInv
  <2>4. \A k \in Pairs : receipt'[k] = receipt[k]
                           \/ (receipt'[k] = 0 /\ receipt[k] \notin alive)
    BY <1>0, <1>7, <2>1, <2>3 DEF StabilizeFailed, TypeOK
  <2>5. alive' \subseteq alive /\ UNCHANGED <<app, pairOf, registered>>
    BY <1>7 DEF StabilizeFailed
  <2> QED
    BY <2>2, <2>4, <2>5, FindTakeAway
<1>8. CASE ReceiptFailed(c)
  <2>1. job[c].kind = "pair"
    BY <1>0, <1>8, AtWork DEF ReceiptFailed
  <2>2. \A d \in Starts : job'[d] = job[d] \/ job'[d] = Idle
    BY <1>0, <1>8, SavedFacts DEF ReceiptFailed, Over
  <2> QED
    BY <1>8, <2>1, <2>2, FindTakeAway DEF ReceiptFailed
<1>9. CASE Register(c)
  <2>1. /\ job[c].key \in Pairs /\ InStore(c) /\ job[c].at = "stabilize"
        /\ pairOf[job[c].pid] = job[c].key
    BY <1>0, <1>9, AtWork DEF Register, InStore, PairsInv, StartInv
  <2>2. /\ \A d \in Starts : job'[d] = job[d] \/ job'[d] = Idle
        /\ job'[c].at = "idle" /\ job'[c].kind # "local"
    BY <1>0, <1>9, SavedFacts, JobFacts DEF Register
  <2>3. /\ UNCHANGED <<app, alive, pairOf>>
        /\ registered' = registered \cup {job[c].pid}
        /\ receipt'[job[c].key] = job[c].pid
        /\ \A k \in Pairs \ {job[c].key} : receipt'[k] = receipt[k]
    BY <1>0, <1>9, <2>1 DEF Register, TypeOK
  <2>4. \A d \in Starts : /\ ~InStore(d)'
                          /\ InTransition(d)' => InTransition(d)
                          /\ job'[d].kind # "local"
    BY <2>1, <2>2, JobFacts
    DEF InStore, InTransition, PairsInv, MutexInv, FindInv, KindInv
  <2>5. KindInv' /\ ClearInv'
    BY <2>4 DEF KindInv, ClearInv
  <2>6. LockInv' /\ GoneInv'
    BY <2>2, <2>3, <2>4 DEF FindInv, LockInv, GoneInv
  <2>7. RegisteredInv'
    BY <2>1, <2>3 DEF FindInv, RegisteredInv
  <2>8. receipt[job[c].key] \notin alive
    BY <2>1 DEF FindInv, ClearInv
  <2>9. FindableWhileRunning'
    BY <2>1, <2>3, <2>8 DEF FindInv, RegisteredInv, FindableWhileRunning
  <2> QED
    BY <2>5, <2>6, <2>7, <2>9 DEF FindInv
<1> QED
  BY <1>1, <1>2, <1>3, <1>4, <1>5, <1>6, <1>7, <1>8, <1>9 DEF Start

\* So does every other step, as long as there are no local starts.
LEMMA FindStep ==
  ASSUME "local" \notin Kinds
  PROVE  PairsInv /\ FindInv /\ [Next]_vars => FindInv'
<1> SUFFICES ASSUME PairsInv, FindInv, [Next]_vars PROVE FindInv'
  OBVIOUS
<1> USE DEF maps, procs, sweep, starts
<1>0. TypeOK /\ 0 \notin alive
  BY DEF PairsInv, PidInv
<1>1. ASSUME NEW c \in Starts, NEW k \in Pairs, RequestPair(c, k)
      PROVE  FindInv'
  <2>1. /\ job'[c].at = "preflight" /\ job'[c].kind = "pair"
        /\ \A d \in Starts \ {c} : job'[d] = job[d]
    BY <1>0, <1>1, JobFacts DEF RequestPair, Snapshot, TypeOK
  <2>2. UNCHANGED <<app, receipt, alive, pairOf, registered>> /\ Running
    BY <1>1 DEF RequestPair
  <2>3. KindInv' /\ ClearInv'
    BY <2>1, <2>2 DEF FindInv, KindInv, ClearInv, InStore
  <2>4. LockInv' /\ GoneInv'
    BY <2>1, <2>2 DEF FindInv, LockInv, GoneInv, InTransition, Running
  <2> QED
    BY <2>2, <2>3, <2>4 DEF FindInv, RegisteredInv, FindableWhileRunning
<1>2. ASSUME NEW c \in Starts, NEW a \in Agents, RequestLocal(c, a)
      PROVE  FindInv'
  BY <1>2 DEF RequestLocal
<1>3. ASSUME NEW c \in Starts, Start(c)
      PROVE  FindInv'
  BY <1>3, FindStepStart
<1>4. ASSUME NEW k \in Pairs, StopRuntime(k)
      PROVE  FindInv'
  <2>1. \A d \in Starts : job'[d] = job[d] \/ job'[d] = Idle
    BY <1>0, <1>4, SavedFacts DEF StopRuntime
  <2>2. receipt[k] \notin alive'
    BY <1>4 DEF StopRuntime, PairsInv, TrackedIsReceipted
  <2>3. \A m \in Pairs : receipt'[m] = receipt[m]
                           \/ (receipt'[m] = 0 /\ receipt[m] \notin alive')
    BY <1>0, <1>4, <2>2 DEF StopRuntime, TypeOK
  <2> QED
    BY <1>4, <2>1, <2>3, FindTakeAway DEF StopRuntime
<1>5. ASSUME NEW a \in Agents, StopWorkspace(a)
      PROVE  FindInv'
  <2> DEFINE k == <<a, active>>
  <2>0. k \in Pairs
    BY <1>0, PairFacts DEF TypeOK
  <2>1. \A d \in Starts : job'[d] = job[d] \/ job'[d] = Idle
    BY <1>0, <1>5, SavedFacts DEF StopWorkspace
  <2>2. alive' \subseteq alive /\ UNCHANGED <<app, pairOf, registered>>
    BY <1>5 DEF StopWorkspace
  <2>3. \A m \in Pairs : receipt'[m] = receipt[m]
                           \/ (receipt'[m] = 0 /\ receipt[m] \notin alive')
    <3>1. CASE Synced[k] = 0
      BY <1>5, <3>1 DEF StopWorkspace
    <3>2. CASE Synced[k] # 0
      <4>1. Synced[k] = receipt[k]
        BY <2>0, <3>2 DEF Synced, PairsInv, TrackedIsReceipted
      <4>2. alive' = alive \ {receipt[k]} /\ receipt' = [receipt EXCEPT ![k] = 0]
        BY <1>5, <3>2, <4>1 DEF StopWorkspace
      <4> QED
        BY <1>0, <2>0, <4>2 DEF TypeOK
    <3> QED
      BY <3>1, <3>2
  <2> QED
    BY <2>1, <2>2, <2>3, FindTakeAway
<1>6. ASSUME NEW a \in Agents, NEW failed \in SUBSET ({a} \X Groups),
             Drain(a, failed)
      PROVE  FindInv'
  <2>1. \A d \in Starts : job'[d] = job[d] \/ job'[d] = Idle
    BY <1>0, <1>6, SavedFacts DEF Drain
  <2>2. alive' \subseteq alive /\ UNCHANGED <<app, pairOf, registered>>
    BY <1>6 DEF Drain
  <2>3. \A m \in Pairs : receipt'[m] = receipt[m]
                           \/ (receipt'[m] = 0 /\ receipt[m] \notin alive')
    BY <1>6 DEF Drain, PairsInv, TrackedIsReceipted
  <2> QED
    BY <2>1, <2>2, <2>3, FindTakeAway
<1>7. CASE ListRuntimes
  <2>1. \A d \in Starts : job'[d] = job[d] \/ job'[d] = Idle
    BY <1>0, <1>7, SavedFacts DEF ListRuntimes
  <2>2. \A m \in Pairs : receipt'[m] = receipt[m]
                           \/ (receipt'[m] = 0 /\ receipt[m] \notin alive')
    BY <1>7 DEF ListRuntimes, Exited, PairsInv, TrackedIsReceipted
  <2> QED
    BY <1>7, <2>1, <2>2, FindTakeAway DEF ListRuntimes
<1>8. ASSUME NEW k \in Pairs, MonitorTerminates(k)
      PROVE  FindInv'
  BY <1>8, FindTakeAway DEF MonitorTerminates
<1>9. ASSUME NEW a \in Agents, EditRecord(a)
       PROVE  FindInv'
  <2>1. \A d \in Starts : job'[d] = job[d] \/ job'[d] = Idle
    BY <1>0, <1>9, SavedFacts DEF EditRecord
  <2> QED
    BY <1>9, <2>1, FindTakeAway DEF EditRecord
<1>10. CASE SweepScan
  BY <1>10, FindTakeAway DEF SweepScan
<1>11. ASSUME NEW p \in Pids, HarnessExit(p)
       PROVE  FindInv'
  BY <1>11, FindTakeAway DEF HarnessExit
<1>12. CASE ShutdownLock
  BY <1>12 DEF ShutdownLock, TransitionFree, FindInv, KindInv, ClearInv, LockInv,
       GoneInv, RegisteredInv, FindableWhileRunning, InStore, InTransition
<1>13. CASE ShutdownSweep
  BY <1>13 DEF ShutdownSweep, FindInv, KindInv, ClearInv, LockInv, GoneInv,
       RegisteredInv, FindableWhileRunning, InStore, InTransition
<1>14. CASE DesktopExit \/ DesktopCrash
  <2>1. \A d \in Starts : job'[d] = Idle
    BY <1>14 DEF DesktopExit, DesktopCrash, DesktopGone
  <2>2. KindInv' /\ ClearInv'
    BY <2>1, JobFacts DEF KindInv, ClearInv, InStore
  <2>3. LockInv' /\ GoneInv'
    BY <1>14, <2>1
    DEF DesktopExit, DesktopCrash, DesktopGone, FindInv, LockInv, GoneInv
  <2> QED
    BY <1>14, <2>2, <2>3 DEF DesktopExit, DesktopCrash, DesktopGone, FindInv,
         RegisteredInv, FindableWhileRunning
<1>15. CASE DesktopBoot \/ ShutdownBegin
  BY <1>15 DEF DesktopBoot, ShutdownBegin, FindInv, KindInv, ClearInv, LockInv,
       GoneInv, RegisteredInv, FindableWhileRunning, InStore, InTransition
<1>16. CASE UNCHANGED <<app, maps, procs, starts>>
  BY <1>16 DEF FindInv, KindInv, ClearInv, LockInv, GoneInv, RegisteredInv,
       FindableWhileRunning, InStore, InTransition
<1> QED
  BY <1>1, <1>2, <1>3, <1>4, <1>5, <1>6, <1>7, <1>8, <1>10, <1>11, <1>12,
     <1>13, <1>14, <1>15, <1>16, <1>9
  DEF Next, Command, SetActiveGroup, SweepSnapshot, vars

\* Nothing runs and no command is at work when the desktop first starts.
LEMMA FindInit == Init => FindInv
BY JobFacts DEF Init, FindInv, KindInv, ClearInv, LockInv, GoneInv,
   RegisteredInv, FindableWhileRunning, InStore, InTransition

\* The invariant of the desktop whose starts all are start_pair.
THEOREM PairOnlyInductive ==
  ASSUME "local" \notin Kinds
  PROVE  Spec => [](PairsInv /\ FindInv)
<1>1. Init => PairsInv /\ FindInv
  BY PairsInit, FindInit
<1>2. PairsInv /\ FindInv /\ [Next]_vars => PairsInv' /\ FindInv'
  BY PairsStep, FindStep
<1> QED
  BY <1>1, <1>2, PTL DEF Spec

\* With start_pair alone, a registered harness keeps its receipt while it runs,
\* so a later start, stop or shutdown finds it: through desktop crashes, failed
\* starts, failed teardowns and group switches.
THEOREM Findable ==
  ASSUME "local" \notin Kinds
  PROVE  Spec => []FindableWhileRunning
<1>1. PairsInv /\ FindInv => FindableWhileRunning
  BY DEF FindInv
<1> QED
  BY <1>1, PairOnlyInductive, PTL

\* With start_pair alone, at most one registered harness runs for a pair.
THEOREM OneHarness ==
  ASSUME "local" \notin Kinds
  PROVE  Spec => []RegisteredOnce
<1>1. PairsInv /\ FindInv => RegisteredOnce
  BY DEF FindInv, FindableWhileRunning, RegisteredOnce
<1> QED
  BY <1>1, PairOnlyInductive, PTL

\* With start_pair alone, no start outruns the shutdown: once the desktop is
\* off, none of its harnesses runs.
THEOREM QuietShutdown ==
  ASSUME "local" \notin Kinds
  PROVE  Spec => []QuietAfterShutdown
<1>1. PairsInv /\ FindInv => QuietAfterShutdown
  BY DEF FindInv, GoneInv, QuietAfterShutdown
<1> QED
  BY <1>1, PairOnlyInductive, PTL
=============================================================================
