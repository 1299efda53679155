---------------------------- MODULE RuntimePairs ----------------------------
(***************************************************************************)
(* The desktop's managed-agent runtimes: which harness processes it starts *)
(* and stops for each (agent, group) pair, what it remembers of them in    *)
(* memory and on disk, and which ones its sweeps reap.                     *)
(*                                                                         *)
(* Commands run on their own threads. Two locks order them: the runtime    *)
(* transition lock, then the store lock, under which the map of tracked    *)
(* runtimes is locked too. A start prepares its launch outside the locks,  *)
(* and holds them from the look at the map until the child is registered.  *)
(* The other commands do all their work in one hold of the locks.          *)
(* A harness is named by its pid; pids are not used twice.                 *)
(***************************************************************************)
EXTENDS Integers, FiniteSets

CONSTANTS Agents,   \* records of the store
          Groups,   \* groups the desktop knows
          Starts,   \* start commands that may be in flight
          MaxPid,   \* bound on the processes spawned
          Kinds     \* start commands in use: start_pair, start_local

Pairs == Agents \X Groups
Pids == 1..MaxPid
NoPair == <<>>

ASSUME RuntimeAssumption ==
  /\ MaxPid \in Nat
  /\ Kinds \subseteq {"pair", "local"}

VARIABLES
  app,          \* the desktop process
  active,       \* active_group_id
  alive,        \* harness processes that run
  pairOf,       \* the pair each was launched for
  spawned,      \* pids given out
  tracked,      \* managed_agent_processes: pid of each pair, 0 for none
  receipt,      \* agent-pids/<pair>.json: pid, 0 for none
  job,          \* the start commands
  fresh,        \* those whose snapshot of the record is still the stored one
  tick,         \* where the periodic sweep is
  skip,         \* skip_pids of its present round
  prevOrphans,  \* prev_orphans
  registered    \* history: processes that were ever registered

maps  == <<tracked, receipt>>
procs == <<alive, pairOf, spawned, registered>>
sweep == <<tick, skip, prevOrphans>>
starts == <<job, fresh>>
vars  == <<app, active, maps, procs, starts, sweep>>

-----------------------------------------------------------------------------
(* Commands and locks.                                                     *)

\* A start: how far it is, the pair its launch was prepared for, the pair it
\* registers, and its child.
Job(kind, at, launch, key, pid) ==
  [kind |-> kind, at |-> at, launch |-> launch, key |-> key, pid |-> pid]
Idle == Job("none", "idle", NoPair, NoPair, 0)
At(c, at) ==
  [job EXCEPT ![c] = Job(job[c].kind, at, job[c].launch, job[c].key, job[c].pid)]

\* Holding the store lock, and with it the map.
InStore(c) == job[c].at \in {"spawn", "stabilize"}
StoreFree == \A c \in Starts : ~InStore(c)

InTransition(c) == job[c].kind = "pair" /\ job[c].at \in {"entered", "spawn", "stabilize"}
TransitionFree == app # "locking" /\ \A c \in Starts : ~InTransition(c)

Running == app \in {"up", "stopping", "locking", "swept"}

\* The store is saved with new updated_at stamps for the agents of A, which
\* makes every other snapshot of them stale; the commands of C are over.
Saved(C, A) ==
  /\ job' = [c \in Starts |-> IF c \in C THEN Idle ELSE job[c]]
  /\ fresh' = {c \in fresh \ C : job[c].key \notin A \X Groups}

Over(c) == Saved({c}, {})

\* sync_managed_agent_processes drops what has exited, but not its receipt.
Exited == {k \in Pairs : tracked[k] # 0 /\ tracked[k] \notin alive}
Synced == [k \in Pairs |-> IF k \in Exited THEN 0 ELSE tracked[k]]
AgentsOf(K) == {k[1] : k \in K}

-----------------------------------------------------------------------------
(* Starting.                                                               *)

\* The record is read; A are the agents whose records this command saved.
Snapshot(c, kind, k, A) ==
  /\ job' = [job EXCEPT ![c] = Job(kind, "preflight", k, k, 0)]
  /\ fresh' = {d \in fresh : job[d].key \notin A \X Groups} \cup {c}

\* start_pair up to its await: snapshot the record.
RequestPair(c, k) ==
  /\ Running /\ "pair" \in Kinds /\ job[c] = Idle /\ StoreFree
  /\ Snapshot(c, "pair", k, {})
  /\ UNCHANGED <<app, active, maps, procs, sweep>>

\* start_managed_agent and start_local_agent_with_preflight up to the await:
\* sync, snapshot, and prepare for the group that is active now.
RequestLocal(c, a) ==
  /\ Running /\ "local" \in Kinds /\ job[c] = Idle /\ StoreFree
  /\ tracked' = Synced
  /\ Snapshot(c, "local", <<a, active>>, AgentsOf(Exited))
  /\ UNCHANGED <<app, active, receipt, procs, sweep>>

\* Faulty variant: the command's state is not reset.
PreflightFailedNoReset(c) ==
  /\ job[c].at = "preflight"
  /\ job' = At(c, "idle")
  /\ UNCHANGED <<fresh, app, active, maps, procs, sweep>>

\* prepare_managed_agent_launch fails.
PreflightFailed(c) ==
  /\ job[c].at = "preflight"
  /\ Over(c)
  /\ UNCHANGED <<app, active, maps, procs, sweep>>

\* Faulty variant: the shutdown flag is not looked at under the lock.
EnterPairUnchecked(c) ==
  /\ job[c].at = "preflight" /\ job[c].kind = "pair" /\ TransitionFree
  /\ job' = At(c, "entered")
  /\ UNCHANGED <<fresh, app, active, maps, procs, sweep>>

\* start_pair takes the transition lock and looks at the shutdown flag.
EnterPair(c) ==
  /\ job[c].at = "preflight" /\ job[c].kind = "pair" /\ TransitionFree
  /\ IF app = "up" THEN job' = At(c, "entered") /\ fresh' = fresh ELSE Over(c)
  /\ UNCHANGED <<app, active, maps, procs, sweep>>

\* Faulty variant: a process of an earlier session is not looked for.
StartPairNoTerminate(c) ==
  LET k == job[c].key IN
  /\ job[c].at = "entered" /\ StoreFree
  /\ \/ /\ c \notin fresh \/ tracked[k] \in alive
        /\ Over(c) /\ UNCHANGED <<maps, alive>>
     \/ /\ c \in fresh /\ tracked[k] \notin alive
        /\ tracked' = [tracked EXCEPT ![k] = 0]
        /\ job' = At(c, "spawn")
        /\ UNCHANGED <<receipt, alive, fresh>>
  /\ UNCHANGED <<app, active, pairOf, spawned, registered, sweep>>

\* start_pair under the store lock: refuse a stale snapshot, leave a running
\* pair alone, or end what terminate_untracked_pair_runtime finds and go on
\* to spawn. When that process does not end, the start is refused.
StartPair(c) ==
  LET k == job[c].key IN
  /\ job[c].at = "entered" /\ StoreFree
  /\ \/ /\ c \notin fresh \/ tracked[k] \in alive
        /\ Over(c) /\ UNCHANGED <<maps, alive>>
     \/ /\ c \in fresh /\ tracked[k] \notin alive
        /\ tracked' = [tracked EXCEPT ![k] = 0]
        /\ \/ /\ job' = At(c, "spawn") /\ fresh' = fresh
              /\ alive' = alive \ {receipt[k]}
              /\ receipt' = IF receipt[k] \in alive
                            THEN [receipt EXCEPT ![k] = 0] ELSE receipt
           \/ /\ receipt[k] \in alive
              /\ Over(c) /\ UNCHANGED <<receipt, alive>>
  /\ UNCHANGED <<app, active, pairOf, spawned, registered, sweep>>

\* start_managed_agent_process under the store lock. Its key is the pair of
\* the group that is active by then, whatever the launch was prepared for.
StartLocal(c) ==
  LET k == <<job[c].key[1], active>> IN
  /\ job[c].at = "preflight" /\ job[c].kind = "local" /\ StoreFree
  /\ \/ /\ c \notin fresh \/ tracked[k] \in alive
        /\ Over(c) /\ UNCHANGED maps
     \/ /\ c \in fresh /\ tracked[k] \notin alive
        /\ job' = [job EXCEPT ![c] = Job("local", "spawn", job[c].launch, k, 0)]
        /\ fresh' = fresh
        /\ tracked' = [tracked EXCEPT ![k] = 0]
        /\ receipt' = IF tracked[k] = 0 THEN receipt
                      ELSE [receipt EXCEPT ![k] = 0]
  /\ UNCHANGED <<app, active, procs, sweep>>

\* Faulty variant: the group of the launch is not compared.
SpawnAnyGroup(c) ==
  /\ job[c].at = "spawn" /\ spawned < MaxPid
  /\ spawned' = spawned + 1
  /\ alive' = alive \cup {spawned + 1}
  /\ pairOf' = [pairOf EXCEPT ![spawned + 1] = job[c].launch]
  /\ job' = [job EXCEPT ![c] = Job(job[c].kind, "stabilize", job[c].launch,
                                   job[c].key, spawned + 1)]
  /\ UNCHANGED <<fresh, app, active, maps, registered, sweep>>

\* spawn_agent_child: only a launch that was prepared for the pair's group.
Spawn(c) ==
  /\ job[c].at = "spawn" /\ spawned < MaxPid
  /\ job[c].launch = job[c].key
  /\ spawned' = spawned + 1
  /\ alive' = alive \cup {spawned + 1}
  /\ pairOf' = [pairOf EXCEPT ![spawned + 1] = job[c].launch]
  /\ job' = [job EXCEPT ![c] = Job(job[c].kind, "stabilize", job[c].launch,
                                   job[c].key, spawned + 1)]
  /\ UNCHANGED <<fresh, app, active, maps, registered, sweep>>

\* spawn_agent_child fails before there is a process. A local start then
\* erases the receipt of its pair.
SpawnFailed(c) ==
  /\ job[c].at = "spawn"
  /\ IF job[c].kind = "pair" THEN Over(c) /\ UNCHANGED receipt
     ELSE /\ Saved({c}, {job[c].key[1]})
          /\ receipt' = [receipt EXCEPT ![job[c].key] = 0]
  /\ UNCHANGED <<app, active, tracked, procs, sweep>>

\* stabilize_started_agent_process fails: the child has exited, reports a
\* failure or no readiness in time and is killed, or cannot be inspected and
\* is left as it is.
StabilizeFailed(c) ==
  /\ job[c].at = "stabilize"
  /\ alive' \in {alive, alive \ {job[c].pid}}
  /\ receipt' = [receipt EXCEPT ![job[c].key] = 0]
  /\ Saved({c}, {job[c].key[1]})
  /\ UNCHANGED <<app, active, tracked, pairOf, spawned, registered, sweep>>

\* The receipt cannot be written: the child is killed.
ReceiptFailed(c) ==
  /\ job[c].at = "stabilize"
  /\ alive' = alive \ {job[c].pid}
  /\ IF job[c].kind = "pair" THEN Over(c) /\ UNCHANGED receipt
     ELSE /\ Saved({c}, {job[c].key[1]})
          /\ receipt' = [receipt EXCEPT ![job[c].key] = 0]
  /\ UNCHANGED <<app, active, tracked, pairOf, spawned, registered, sweep>>

\* Faulty variant: the child is tracked and no receipt is left for it.
RegisterNoReceipt(c) ==
  /\ job[c].at = "stabilize"
  /\ tracked' = [tracked EXCEPT ![job[c].key] = job[c].pid]
  /\ registered' = registered \cup {job[c].pid}
  /\ Saved({c}, {job[c].key[1]})
  /\ UNCHANGED <<app, active, receipt, alive, pairOf, spawned, sweep>>

\* The child is ready: write the receipt, then track it.
Register(c) ==
  /\ job[c].at = "stabilize"
  /\ receipt' = [receipt EXCEPT ![job[c].key] = job[c].pid]
  /\ tracked' = [tracked EXCEPT ![job[c].key] = job[c].pid]
  /\ registered' = registered \cup {job[c].pid}
  /\ Saved({c}, {job[c].key[1]})
  /\ UNCHANGED <<app, active, alive, pairOf, spawned, sweep>>

Start(c) ==
  \/ PreflightFailed(c) \/ EnterPair(c) \/ StartPair(c) \/ StartLocal(c)
  \/ Spawn(c) \/ SpawnFailed(c) \/ StabilizeFailed(c) \/ ReceiptFailed(c)
  \/ Register(c)

-----------------------------------------------------------------------------
(* Stopping and listing. A teardown that fails leaves everything in place. *)

\* Faulty variant: the process of an earlier session is not ended.
StopRuntimeTrackedOnly(k) ==
  /\ Running /\ TransitionFree /\ StoreFree
  /\ alive' = alive \ {tracked[k]}
  /\ tracked' = [tracked EXCEPT ![k] = 0]
  /\ receipt' = [receipt EXCEPT ![k] = 0]
  /\ Saved({}, {k[1]})
  /\ UNCHANGED <<app, active, pairOf, spawned, registered, sweep>>

\* stop_managed_agent_runtime: the tracked child, else the receipted one.
StopRuntime(k) ==
  /\ Running /\ TransitionFree /\ StoreFree
  /\ alive' = alive \ {IF tracked[k] # 0 THEN tracked[k] ELSE receipt[k]}
  /\ tracked' = [tracked EXCEPT ![k] = 0]
  /\ receipt' = [receipt EXCEPT ![k] = 0]
  /\ Saved({}, {k[1]})
  /\ UNCHANGED <<app, active, pairOf, spawned, registered, sweep>>

\* stop_managed_agent: sync, then the pair of the active group if tracked.
StopWorkspace(a) ==
  LET k == <<a, active>> IN
  /\ Running /\ StoreFree
  /\ IF Synced[k] # 0
     THEN /\ alive' = alive \ {Synced[k]}
          /\ tracked' = [Synced EXCEPT ![k] = 0]
          /\ receipt' = [receipt EXCEPT ![k] = 0]
          /\ Saved({}, AgentsOf(Exited) \cup {a})
     ELSE /\ tracked' = Synced
          /\ Saved({}, AgentsOf(Exited))
          /\ UNCHANGED <<alive, receipt>>
  /\ UNCHANGED <<app, active, pairOf, spawned, registered, sweep>>

\* stop_managed_agent_process: every tracked pair of the agent, but for the
\* ones whose teardown fails, which stay; most callers then leave the record
\* as it was stored.
Drain(a, failed) ==
  LET mine == {k \in {a} \X Groups : tracked[k] # 0}
      gone == mine \ failed IN
  /\ Running /\ StoreFree /\ mine # {}
  /\ \A k \in failed : tracked[k] \in alive
  /\ alive' = alive \ {tracked[k] : k \in gone}
  /\ tracked' = [k \in Pairs |-> IF k \in gone THEN 0 ELSE tracked[k]]
  /\ receipt' = [k \in Pairs |-> IF k \in gone THEN 0 ELSE receipt[k]]
  /\ Saved({}, {a}) \/ (failed # {} /\ Saved({}, {}))
  /\ UNCHANGED <<app, active, pairOf, spawned, registered, sweep>>

\* list_managed_agent_runtimes forgets what has exited, receipt included.
ListRuntimes ==
  /\ Running /\ TransitionFree /\ StoreFree /\ Exited # {}
  /\ tracked' = Synced
  /\ receipt' = [k \in Pairs |-> IF k \in Exited THEN 0 ELSE receipt[k]]
  /\ Saved({}, AgentsOf(Exited))
  /\ UNCHANGED <<app, active, procs, sweep>>

\* monitor_native_lifecycle ends a tracked child whose lifecycle file is bad.
MonitorTerminates(k) ==
  /\ Running /\ StoreFree /\ tracked[k] \in alive
  /\ alive' = alive \ {tracked[k]}
  /\ UNCHANGED <<app, active, maps, pairOf, spawned, registered, starts, sweep>>

\* update_managed_agent: sync, then the record changes under its harness.
EditRecord(a) ==
  /\ Running /\ StoreFree
  /\ tracked' = Synced
  /\ Saved({}, AgentsOf(Exited) \cup {a})
  /\ UNCHANGED <<app, active, receipt, procs, sweep>>

\* x0x_set_active_group_id.
SetActiveGroup(g) ==
  /\ Running
  /\ active' = g
  /\ UNCHANGED <<app, maps, procs, starts, sweep>>

Command ==
  \/ \E c \in Starts, k \in Pairs : RequestPair(c, k)
  \/ \E c \in Starts, a \in Agents : RequestLocal(c, a)
  \/ \E k \in Pairs : StopRuntime(k) \/ MonitorTerminates(k)
  \/ \E a \in Agents : StopWorkspace(a) \/ EditRecord(a)
  \/ \E a \in Agents : \E failed \in SUBSET ({a} \X Groups) : Drain(a, failed)
  \/ ListRuntimes
  \/ \E g \in Groups : SetActiveGroup(g)

-----------------------------------------------------------------------------
(* The periodic sweep, every 60 s.                                         *)

\* Faulty variant: the map is read without its lock.
SweepSnapshotUnlocked ==
  /\ Running /\ tick = "sleep"
  /\ tick' = "scan"
  /\ skip' = {tracked[k] : k \in Pairs}
  /\ UNCHANGED <<app, active, maps, procs, starts, prevOrphans>>

\* skip_pids, read under the lock of the map.
SweepSnapshot ==
  /\ Running /\ tick = "sleep" /\ StoreFree
  /\ tick' = "scan"
  /\ skip' = {tracked[k] : k \in Pairs}
  /\ UNCHANGED <<app, active, maps, procs, starts, prevOrphans>>

\* Faulty variant: orphans are only remembered, one round after the other.
SweepScanNeverKills ==
  /\ Running /\ tick = "scan"
  /\ tick' = "sleep" /\ skip' = {}
  /\ prevOrphans' = alive \ skip
  /\ UNCHANGED <<app, active, maps, procs, starts>>

\* sweep_system_agent_processes_with_grace: of the processes that carry this
\* desktop's marker and are not skipped, reap those the last round saw too.
SweepScan ==
  /\ Running /\ tick = "scan"
  /\ tick' = "sleep" /\ skip' = {}
  /\ prevOrphans' = alive \ skip
  /\ alive' = alive \ ((alive \ skip) \cap prevOrphans)
  /\ UNCHANGED <<app, active, maps, pairOf, spawned, registered, starts>>

-----------------------------------------------------------------------------
(* The life of the processes.                                              *)

HarnessExit(p) ==
  /\ p \in alive
  /\ alive' = alive \ {p}
  /\ UNCHANGED <<app, active, maps, pairOf, spawned, registered, starts, sweep>>

\* shutdown_started is set, then shutdown_managed_agents waits for its locks.
ShutdownBegin ==
  /\ app = "up" /\ app' = "stopping"
  /\ UNCHANGED <<active, maps, procs, starts, sweep>>

ShutdownLock ==
  /\ app = "stopping" /\ TransitionFree /\ app' = "locking"
  /\ UNCHANGED <<active, maps, procs, starts, sweep>>

\* shutdown_managed_agents: end every tracked child, every receipted one and,
\* with an empty skip list, every process that carries the marker.
ShutdownSweep ==
  /\ app = "locking" /\ StoreFree
  /\ app' = "swept"
  /\ alive' = {}
  /\ tracked' = [k \in Pairs |-> 0]
  /\ receipt' = [k \in Pairs |-> 0]
  /\ UNCHANGED <<active, pairOf, spawned, registered, starts, sweep>>

\* The desktop process is gone, with its threads and what they held.
DesktopGone ==
  /\ tracked' = [k \in Pairs |-> 0]
  /\ job' = [c \in Starts |-> Idle] /\ fresh' = {}
  /\ tick' = "sleep" /\ skip' = {} /\ prevOrphans' = {}
  /\ UNCHANGED <<active, receipt, procs>>

DesktopExit == app = "swept" /\ app' = "off" /\ DesktopGone
DesktopCrash == Running /\ app' = "crashed" /\ DesktopGone

\* Nothing is swept when the desktop comes up.
DesktopBoot ==
  /\ app \in {"off", "crashed"} /\ app' = "up"
  /\ UNCHANGED <<active, maps, procs, starts, sweep>>

Init ==
  /\ app = "up" /\ active \in Groups
  /\ alive = {} /\ pairOf = [p \in Pids |-> NoPair] /\ spawned = 0
  /\ tracked = [k \in Pairs |-> 0] /\ receipt = [k \in Pairs |-> 0]
  /\ job = [c \in Starts |-> Idle] /\ fresh = {}
  /\ tick = "sleep" /\ skip = {} /\ prevOrphans = {}
  /\ registered = {}

Next ==
  \/ Command
  \/ \E c \in Starts : Start(c)
  \/ SweepSnapshot \/ SweepScan
  \/ \E p \in Pids : HarnessExit(p)
  \/ ShutdownBegin \/ ShutdownLock \/ ShutdownSweep
  \/ DesktopExit \/ DesktopCrash \/ DesktopBoot

Spec == Init /\ [][Next]_vars

\* The sweep's task wakes every 60 s and, waiting for the mutex of the map, is
\* woken whenever it is released; a start ends, since its preflight calls and
\* its stabilization have timeouts. Users need not do anything.
FairSpec ==
  /\ Spec
  /\ SF_vars(SweepSnapshot) /\ WF_vars(SweepScan)
  /\ \A c \in Starts : WF_vars(Start(c))

-----------------------------------------------------------------------------
(* Properties.                                                             *)

Jobs == {Idle} \cup [kind : {"pair", "local"},
                     at : {"preflight", "entered", "spawn", "stabilize"},
                     launch : Pairs, key : Pairs, pid : {0} \cup Pids]

\* The map, the receipts, the start commands and the sweep hold what their
\* types allow; a command that is over is back to its idle state.
TypeOK ==
  /\ app \in {"up", "stopping", "locking", "swept", "off", "crashed"}
  /\ active \in Groups
  /\ alive \in SUBSET Pids
  /\ pairOf \in [Pids -> Pairs \cup {NoPair}]
  /\ spawned \in 0..MaxPid
  /\ tracked \in [Pairs -> {0} \cup Pids]
  /\ receipt \in [Pairs -> {0} \cup Pids]
  /\ job \in [Starts -> Jobs]
  /\ fresh \in SUBSET Starts
  /\ tick \in {"sleep", "scan"}
  /\ skip \in SUBSET ({0} \cup Pids)
  /\ prevOrphans \in SUBSET Pids
  /\ registered \in SUBSET Pids

\* A process that is tracked, or that a start is bringing up.
Current(p) ==
  \/ \E k \in Pairs : tracked[k] = p
  \/ \E c \in Starts : job[c].at = "stabilize" /\ job[c].pid = p

\* What the desktop tracks it can find again after a crash: the receipt of
\* the pair names the tracked child, whatever starts, stops, lists and failed
\* teardowns came before.
TrackedIsReceipted ==
  \A k \in Pairs : tracked[k] # 0 => receipt[k] = tracked[k]

\* A child is tracked under the pair it was launched for, although the user
\* may switch groups while a start is preparing.
TrackedRunsItsPair ==
  \A k \in Pairs : tracked[k] # 0 => pairOf[tracked[k]] = k

\* The two rounds of the periodic sweep never reap a child that is tracked or
\* on its way to be, however the rounds fall between spawn and registration.
SweepSparesCurrent ==
  [][SweepScan => \A p \in alive \ alive' : ~Current(p)]_vars

\* At most one registered harness runs for a pair: a start replaces the
\* process an earlier session left before it registers a new one.
RegisteredOnce ==
  \A p, q \in registered \cap alive : pairOf[p] = pairOf[q] => p = q

\* A registered harness keeps its receipt as long as it runs, so a later
\* start, stop or shutdown finds it.
FindableWhileRunning ==
  \A p \in registered \cap alive : receipt[pairOf[p]] = p

\* Once the desktop has shut down, no harness of it runs.
QuietAfterShutdown == app = "off" => alive = {}

\* A harness nobody tracks or is starting is reaped, unless the desktop goes
\* away first.
OrphanReaped ==
  \A p \in Pids :
    (Running /\ p \in alive /\ ~Current(p)) ~> (p \notin alive \/ ~Running)
=============================================================================
