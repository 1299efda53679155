-------------------------- MODULE CompanyLifecycle --------------------------
(***************************************************************************)
(* Company instances of the desktop: a run provisions resources, mints one *)
(* identity per role, joins groups, binds the Symphony daemon and creates  *)
(* a run issue, with a checkpoint in the instance's manifest after each.   *)
(*                                                                         *)
(* Instantiate, resume and the reconciliation at boot run under one lock,  *)
(* company_run_lock, so there is one run at a time. cancel_company_run     *)
(* does not take it: it writes a tombstone and releases the processes      *)
(* while a run may be anywhere. Both save the manifest by writing one      *)
(* temporary file and renaming it. The desktop may stop at any point.      *)
(*                                                                         *)
(* Instances are numbered in the order of the epoch in their ids. Reads of *)
(* an existing manifest succeed; writes and renames may fail.              *)
(***************************************************************************)
EXTENDS Integers, FiniteSets

CONSTANTS MaxInstance,  \* bound on the instances ever made
          Steps,        \* provisioning steps of the template's plan
          MaxIssues,    \* bound on the run issues created per instance
          Overlap       \* may a cancel's save overlap a save of the run?

Instances == 1..MaxInstance

ASSUME CompanyAssumption ==
  /\ MaxInstance \in Nat
  /\ Steps \in Nat
  /\ MaxIssues \in Nat
  /\ Overlap \in BOOLEAN

VARIABLES
  file,      \* manifest.json of each instance
  tmp,       \* manifest.json.tmp of each instance
  rpc,       \* where the run is; "idle" while company_run_lock is free
  mode,      \* what runs: a command, the boot loop, or its rebind
  inst,      \* the instance it advances
  obs,       \* observed_generation
  mem,       \* the manifest in its memory
  saving,    \* how far its save is
  todo,      \* instances the boot loop has still to look at
  booting,   \* reconcile_companies has still to run
  cpc,       \* where cancel_company_run is
  cinst,     \* the instance it cancels
  cmem,      \* the tombstone it saves
  agents,    \* instances with children in COMPANY_AGENT_CHILDREN
  symphony,  \* instance whose config local_symphony serves, 0 for no handle
  active,    \* active_company_instance, 0 for none
  issues     \* history: run issues created on the daemon

files    == <<file, tmp>>
run      == <<rpc, mode, inst, obs, mem, saving, todo, booting>>
canceler == <<cpc, cinst, cmem>>
runtime  == <<agents, symphony, active>>
vars     == <<files, run, canceler, runtime, issues>>

-----------------------------------------------------------------------------
(* Manifests.                                                              *)

\* steps counts the provisioning steps, which are completed in order.
Manifest(status, steps, phases, runId, gen) ==
  [status |-> status, steps |-> steps, phases |-> phases, runId |-> runId,
   gen |-> gen]
Missing == Manifest("none", 0, {}, FALSE, 0)
Fresh == Manifest("in_progress", 0, {}, FALSE, 0)

Checkpoint(m, phase) == [m EXCEPT !.phases = @ \cup {phase}]

LifecycleIsComplete(m) ==
  /\ m.status = "complete" /\ m.runId
  /\ {"identities", "membership", "symphony_bind"} \subseteq m.phases

\* What existing_active_instance looks for.
NotCancelled == {i \in Instances : file[i].status \notin {"none", "cancelled"}}

\* company_run_cancelled, for the instance of the run.
Cancelled == file[inst].status = "cancelled" \/ file[inst].gen > obs

-----------------------------------------------------------------------------
(* Saving the manifest from a run.                                         *)

\* Where a save goes on, by the place it was called from.
OkNext ==
  [step |-> "steps", stepFailed |-> "end", provisioned |-> "identities",
   identitiesSaved |-> "membership", membershipSaved |-> "bind",
   bindSaved |-> "issue", issueSaved |-> "complete", completed |-> "activate",
   failing |-> "failed", faulting |-> "end"]

ErrNext ==
  [step |-> "end", stepFailed |-> "end", provisioned |-> "end",
   identitiesSaved |-> "fault", membershipSaved |-> "fault",
   bindSaved |-> "fault", issueSaved |-> "fault", completed |-> "fault",
   failing |-> "failed", faulting |-> "end"]

Sites == DOMAIN OkNext

\* The run's saves wait for the cancel's only if the two may not overlap.
SaveFree == Overlap \/ cpc \notin {"write", "rename"}

\* The head of JsonManifestSink::save: a tombstone on disk refuses m.
Save(site, m) ==
  /\ SaveFree
  /\ IF file[inst].status = "cancelled"
     THEN rpc' = "cleanup" /\ UNCHANGED <<mem, saving>>
     ELSE rpc' = site /\ mem' = m /\ saving' = "write"

SaveWrite ==
  /\ saving = "write"
  /\ saving' = "rename"
  /\ tmp' = [tmp EXCEPT ![inst] = mem]
  /\ UNCHANGED <<file, rpc, mode, inst, obs, mem, todo, booting, canceler,
                 runtime, issues>>

\* The rename takes whatever the shared temporary file holds.
SaveRename ==
  /\ saving = "rename" /\ tmp[inst] # Missing
  /\ saving' = "none" /\ rpc' = OkNext[rpc]
  /\ file' = [file EXCEPT ![inst] = tmp[inst]]
  /\ tmp' = [tmp EXCEPT ![inst] = Missing]
  /\ mem' = IF rpc = "step" THEN mem ELSE Missing
  /\ UNCHANGED <<mode, inst, obs, todo, booting, canceler, runtime, issues>>

\* The write or the rename fails; the rename does if the file is gone.
SaveFailed ==
  /\ saving # "none"
  /\ saving' = "none" /\ rpc' = ErrNext[rpc] /\ mem' = Missing
  /\ UNCHANGED <<files, mode, inst, obs, todo, booting, canceler, runtime,
                 issues>>

-----------------------------------------------------------------------------
(* A run of run_company_lifecycle.                                         *)

At(here) == rpc = here /\ saving = "none"

\* A step that only moves the run on.
Goto(next) ==
  /\ rpc' = next
  /\ UNCHANGED <<files, mode, inst, obs, mem, saving, todo, booting, canceler,
                 runtime, issues>>

UnlessCancelled(next) == Goto(IF Cancelled THEN "cleanup" ELSE next)

\* A step that begins a save.
Saves(site, m) ==
  /\ Save(site, m)
  /\ UNCHANGED <<files, mode, inst, obs, todo, booting, canceler, runtime,
                 issues>>

\* Faulty variant: the manifest of a resumable instance is begun afresh.
LoadAfresh ==
  /\ At("load")
  /\ obs' = file[inst].gen
  /\ IF file[inst].status = "cancelled"
     THEN rpc' = "cleanup" /\ mem' = mem
     ELSE rpc' = "steps" /\ mem' = Fresh
  /\ UNCHANGED <<files, mode, inst, saving, todo, booting, canceler, runtime,
                 issues>>

\* The head of instantiate_company. An instance that was complete goes back
\* to in_progress while its steps are walked again.
Load ==
  /\ At("load")
  /\ obs' = file[inst].gen
  /\ IF file[inst].status = "cancelled"
     THEN rpc' = "cleanup" /\ mem' = mem
     ELSE /\ rpc' = "steps"
          /\ mem' = [file[inst] EXCEPT
                       !.status = IF @ = "complete" THEN "in_progress" ELSE @]
  /\ UNCHANGED <<files, mode, inst, saving, todo, booting, canceler, runtime,
                 issues>>

NextStep ==
  /\ At("steps") /\ mem.steps < Steps
  /\ UnlessCancelled("ensure")

\* The provisioner made or adopted the step's resource.
EnsureDone ==
  At("ensure") /\ Saves("step", [mem EXCEPT !.steps = @ + 1])

EnsureFailed ==
  At("ensure") /\ Saves("stepFailed", [mem EXCEPT !.status = "resumable"])

StepsDone ==
  /\ At("steps") /\ mem.steps = Steps
  /\ Saves("provisioned", [mem EXCEPT !.status = "in_progress"])

Identities == At("identities") /\ UnlessCancelled("mint")

\* provision_company_agent_identities holds the lock of the children while
\* it brings them up.
Mint ==
  /\ At("mint")
  /\ agents' = agents \cup {inst} /\ rpc' = "minted"
  /\ UNCHANGED <<files, mode, inst, obs, mem, saving, todo, booting, canceler,
                 symphony, active, issues>>

\* What this call brought up is dropped again.
MintFailed == At("mint") /\ Goto("fail")

IdentitiesDone ==
  At("minted") /\ Saves("identitiesSaved", Checkpoint(file[inst], "identities"))

Membership ==
  /\ At("membership")
  /\ IF "membership" \in file[inst].phases THEN Goto("bind")
     ELSE UnlessCancelled("join")

JoinDone ==
  At("join") /\ Saves("membershipSaved", Checkpoint(file[inst], "membership"))

JoinFailed == At("join") /\ Goto("fail")

Bind == At("bind") /\ UnlessCancelled("bringUp")

\* The owner daemon's endpoint is missing or WORKFLOW.md cannot be written.
BindAborted == At("bringUp") /\ Goto("end")

\* bring_up_symphony: nothing for the same config, else shut down first.
BringUp ==
  /\ At("bringUp")
  /\ rpc' = IF symphony = inst THEN "ready" ELSE "spawn"
  /\ symphony' = IF symphony = inst THEN inst ELSE 0
  /\ UNCHANGED <<files, mode, inst, obs, mem, saving, todo, booting, canceler,
                 agents, active, issues>>

\* The daemon is attached to or spawned and becomes ready, or does not.
BringUpEnds ==
  /\ At("spawn")
  /\ rpc' = "ready"
  /\ symphony' \in {symphony, inst}
  /\ UNCHANGED <<files, mode, inst, obs, mem, saving, todo, booting, canceler,
                 agents, active, issues>>

BindDone ==
  /\ At("ready") /\ mode # "rebind"
  /\ IF symphony = 0 THEN Goto("fail")
     ELSE Saves("bindSaved", Checkpoint(file[inst], "symphony_bind"))

RunIssue ==
  /\ At("issue")
  /\ rpc' = IF file[inst].runId THEN "complete"
            ELSE IF Cancelled THEN "cleanup" ELSE "create"
  /\ mem' = IF rpc' = "create" THEN file[inst] ELSE mem
  /\ UNCHANGED <<files, mode, inst, obs, saving, todo, booting, canceler,
                 runtime, issues>>

\* Faulty variant: the checkpoint is saved without the run's id.
CreateIssueNoRunId ==
  /\ At("create") /\ symphony # 0 /\ issues[inst] < MaxIssues
  /\ issues' = [issues EXCEPT ![inst] = @ + 1]
  /\ Save("issueSaved", Checkpoint(mem, "run_issue"))
  /\ UNCHANGED <<files, mode, inst, obs, todo, booting, canceler, runtime>>

\* The daemon created the issue: save its id with the checkpoint.
CreateIssue ==
  /\ At("create") /\ symphony # 0 /\ issues[inst] < MaxIssues
  /\ issues' = [issues EXCEPT ![inst] = @ + 1]
  /\ Save("issueSaved", [Checkpoint(mem, "run_issue") EXCEPT !.runId = TRUE])
  /\ UNCHANGED <<files, mode, inst, obs, todo, booting, canceler, runtime>>

\* No client, no connection, or an answer that is lost or has no id: the
\* daemon may have created the issue.
CreateIssueFailed ==
  /\ At("create")
  /\ rpc' = "fail" /\ mem' = Missing
  /\ \/ issues' = issues
     \/ /\ symphony # 0 /\ issues[inst] < MaxIssues
        /\ issues' = [issues EXCEPT ![inst] = @ + 1]
  /\ UNCHANGED <<files, mode, inst, obs, saving, todo, booting, canceler,
                 runtime>>

Complete ==
  /\ At("complete")
  /\ IF Cancelled THEN Goto("cleanup")
     ELSE Saves("completed", [file[inst] EXCEPT !.status = "complete"])

Activate ==
  /\ At("activate")
  /\ active' = inst /\ rpc' = "recheck"
  /\ UNCHANGED <<files, mode, inst, obs, mem, saving, todo, booting, canceler,
                 agents, symphony, issues>>

\* Faulty variant: the manifest is not read again after the binding.
RecheckSkipped == At("recheck") /\ Goto("end")

\* The manifest is read again after the binding.
Recheck ==
  /\ At("recheck")
  /\ rpc' = IF Cancelled THEN "cleanup" ELSE "end"
  /\ active' = IF Cancelled /\ active = inst THEN 0 ELSE active
  /\ UNCHANGED <<files, mode, inst, obs, mem, saving, todo, booting, canceler,
                 agents, symphony, issues>>

\* mark_company_resumable; a tombstone is left alone.
MarkResumable(here, site) ==
  /\ At(here) /\ SaveFree
  /\ IF file[inst].status = "cancelled"
     THEN rpc' = OkNext[site] /\ UNCHANGED <<mem, saving>>
     ELSE /\ rpc' = site /\ saving' = "write"
          /\ mem' = [file[inst] EXCEPT !.status = "resumable"]
  /\ UNCHANGED <<files, mode, inst, obs, todo, booting, canceler, runtime,
                 issues>>

Failed == At("failed") /\ UnlessCancelled("end")

\* Faulty variant: a cancelled run keeps the children it brought up.
CleanupDaemonOnly ==
  /\ At("cleanup")
  /\ symphony' = 0 /\ rpc' = "end" /\ mem' = Missing
  /\ UNCHANGED <<files, mode, inst, obs, saving, todo, booting, canceler,
                 agents, active, issues>>

\* cleanup_company_runtime.
Cleanup ==
  /\ At("cleanup")
  /\ agents' = agents \ {inst} /\ symphony' = 0
  /\ rpc' = "end" /\ mem' = Missing
  /\ UNCHANGED <<files, mode, inst, obs, saving, todo, booting, canceler,
                 active, issues>>

Return ==
  /\ At("end")
  /\ rpc' = IF mode = "boot" THEN "scan" ELSE "idle"
  /\ inst' = 0 /\ obs' = 0 /\ mem' = Missing
  /\ UNCHANGED <<files, mode, saving, todo, booting, canceler, runtime, issues>>

-----------------------------------------------------------------------------
(* What starts a run.                                                      *)

\* The lock is taken for instance i.
Enter(i) ==
  /\ rpc = "idle" /\ rpc' = "load" /\ mode' = "command" /\ inst' = i
  /\ UNCHANGED <<obs, mem, saving, todo, booting, canceler, runtime, issues>>

\* Faulty variant: resumable instances do not hold the slot.
InstantiateUnlessRunning(i) ==
  /\ \A j \in NotCancelled : file[j].status = "resumable"
  /\ file[i] = Missing /\ \A j \in 1..(i - 1) : file[j] # Missing
  /\ file' = [file EXCEPT ![i] = Fresh]
  /\ Enter(i) /\ UNCHANGED tmp

\* instantiate_company_template: refused while an instance that is not
\* cancelled exists, else the manifest of a new one reserves the slot.
Instantiate(i) ==
  /\ NotCancelled = {}
  /\ file[i] = Missing /\ \A j \in 1..(i - 1) : file[j] # Missing
  /\ file' = [file EXCEPT ![i] = Fresh]
  /\ Enter(i) /\ UNCHANGED tmp

\* Faulty variant: a complete instance is taken up again.
ResumeAny(i) == i \in NotCancelled /\ Enter(i) /\ UNCHANGED files

\* resume_company_instance.
Resume(i) ==
  /\ i \in NotCancelled /\ ~LifecycleIsComplete(file[i])
  /\ Enter(i) /\ UNCHANGED files

\* reconcile_companies takes the lock and scans the instances.
Reconcile ==
  /\ booting /\ rpc = "idle"
  /\ booting' = FALSE /\ rpc' = "scan" /\ mode' = "boot" /\ todo' = NotCancelled
  /\ UNCHANGED <<files, inst, obs, mem, saving, canceler, runtime, issues>>

ReconcileNext(i) ==
  /\ rpc = "scan" /\ i \in todo
  /\ todo' = todo \ {i}
  /\ IF LifecycleIsComplete(file[i]) THEN UNCHANGED <<rpc, inst>>
     ELSE rpc' = "load" /\ inst' = i
  /\ UNCHANGED <<files, mode, obs, mem, saving, booting, canceler, runtime,
                 issues>>

\* The newest complete instance is bound again, if there is one.
Rebind ==
  LET complete == {i \in Instances : LifecycleIsComplete(file[i])} IN
  /\ rpc = "scan" /\ todo = {}
  /\ mode' = "rebind"
  /\ \/ complete = {} /\ rpc' = "end" /\ inst' = inst
     \/ /\ rpc' = "bringUp" /\ inst' \in complete
        /\ \A i \in complete : i <= inst'
  /\ UNCHANGED <<files, obs, mem, saving, todo, booting, canceler, runtime,
                 issues>>

RebindReady ==
  /\ At("ready") /\ mode = "rebind"
  /\ rpc' = IF symphony = 0 THEN "end" ELSE "reload"
  /\ active' = IF symphony = 0 THEN active ELSE inst
  /\ UNCHANGED <<files, mode, inst, obs, mem, saving, todo, booting, canceler,
                 agents, symphony, issues>>

\* Faulty variant: the manifest is not read again after the rebind.
RebindReloadSkipped == At("reload") /\ Goto("end")

\* The manifest is read again after the rebind; the daemon is left as it is.
RebindReload ==
  /\ At("reload")
  /\ rpc' = "end"
  /\ active' = IF file[inst].status = "cancelled" /\ active = inst
               THEN 0 ELSE active
  /\ UNCHANGED <<files, mode, inst, obs, mem, saving, todo, booting, canceler,
                 agents, symphony, issues>>

\* One step of the run that holds the lock, or of the boot loop.
RunStep ==
  \/ SaveWrite \/ SaveRename \/ SaveFailed
  \/ Load \/ NextStep \/ EnsureDone \/ EnsureFailed \/ StepsDone
  \/ Identities \/ Mint \/ MintFailed \/ IdentitiesDone
  \/ Membership \/ JoinDone \/ JoinFailed
  \/ Bind \/ BindAborted \/ BringUp \/ BringUpEnds \/ BindDone
  \/ RunIssue \/ CreateIssue \/ CreateIssueFailed
  \/ Complete \/ Activate \/ Recheck
  \/ MarkResumable("fail", "failing") \/ MarkResumable("fault", "faulting")
  \/ Failed \/ Cleanup \/ Return
  \/ \E i \in Instances : ReconcileNext(i)
  \/ Rebind \/ RebindReady \/ RebindReload

-----------------------------------------------------------------------------
(* cancel_company_run, on the main thread: one at a time.                  *)

\* Faulty variant: a cancelled instance is cancelled again.
CancelLoadAgain(i) ==
  /\ cpc = "idle" /\ file[i] # Missing
  /\ Overlap \/ saving = "none"
  /\ cinst' = i
  /\ cpc' = "write"
  /\ cmem' = [file[i] EXCEPT !.status = "cancelled", !.gen = @ + 1]
  /\ UNCHANGED <<files, run, runtime, issues>>

\* The manifest is read; a tombstone that is there already is left alone.
CancelLoad(i) ==
  /\ cpc = "idle" /\ file[i] # Missing
  /\ Overlap \/ saving = "none"
  /\ cinst' = i
  /\ IF file[i].status = "cancelled"
     THEN cpc' = "reap" /\ cmem' = cmem
     ELSE /\ cpc' = "write"
          /\ cmem' = [file[i] EXCEPT !.status = "cancelled", !.gen = @ + 1]
  /\ UNCHANGED <<files, run, runtime, issues>>

CancelWrite ==
  /\ cpc = "write" /\ cpc' = "rename"
  /\ tmp' = [tmp EXCEPT ![cinst] = cmem]
  /\ UNCHANGED <<file, run, cinst, cmem, runtime, issues>>

CancelRename ==
  /\ cpc = "rename" /\ tmp[cinst] # Missing
  /\ cpc' = "reap" /\ cmem' = Missing
  /\ file' = [file EXCEPT ![cinst] = tmp[cinst]]
  /\ tmp' = [tmp EXCEPT ![cinst] = Missing]
  /\ UNCHANGED <<run, cinst, runtime, issues>>

CancelFailed ==
  /\ cpc \in {"write", "rename"}
  /\ cpc' = "idle" /\ cinst' = 0 /\ cmem' = Missing
  /\ UNCHANGED <<files, run, runtime, issues>>

CancelReap ==
  /\ cpc = "reap" /\ cpc' = "stop"
  /\ agents' = agents \ {cinst}
  /\ UNCHANGED <<files, run, cinst, cmem, symphony, active, issues>>

\* shutdown_symphony_owned, whichever instance the daemon serves.
CancelStop ==
  /\ cpc = "stop" /\ cpc' = "clear"
  /\ symphony' = 0
  /\ UNCHANGED <<files, run, cinst, cmem, agents, active, issues>>

CancelClear ==
  /\ cpc = "clear" /\ cpc' = "idle" /\ cinst' = 0
  /\ active' = IF active = cinst THEN 0 ELSE active
  /\ UNCHANGED <<files, run, cmem, agents, symphony, issues>>

CancelStep ==
  \/ CancelWrite \/ CancelRename \/ CancelFailed
  \/ CancelReap \/ CancelStop \/ CancelClear

-----------------------------------------------------------------------------
\* The desktop stops, by a quit or a crash, and starts again. A temporary file
\* that is left is as good as none: nobody renames it before writing it anew.
Restart ==
  /\ tmp' = [i \in Instances |-> Missing]
  /\ rpc' = "idle" /\ mode' = "command" /\ mem' = Missing /\ saving' = "none"
  /\ inst' = 0 /\ obs' = 0 /\ todo' = {} /\ booting' = TRUE
  /\ cpc' = "idle" /\ cinst' = 0 /\ cmem' = Missing
  /\ agents' = {} /\ symphony' = 0 /\ active' = 0
  /\ UNCHANGED <<file, issues>>

Init ==
  /\ file = [i \in Instances |-> Missing] /\ tmp = file
  /\ rpc = "idle" /\ mode = "command" /\ inst = 0 /\ obs = 0
  /\ mem = Missing /\ saving = "none" /\ todo = {} /\ booting = TRUE
  /\ cpc = "idle" /\ cinst = 0 /\ cmem = Missing
  /\ agents = {} /\ symphony = 0 /\ active = 0
  /\ issues = [i \in Instances |-> 0]

Next ==
  \/ \E i \in Instances : Instantiate(i) \/ Resume(i) \/ CancelLoad(i)
  \/ Reconcile \/ RunStep \/ CancelStep \/ Restart

Spec == Init /\ [][Next]_vars

\* The daemon's calls, the children's and Symphony's bring-up have timeouts.
\* The request that creates the run issue has none: it ends for certain only
\* when its daemon is gone. Nothing is assumed of users or restarts.
FairSpec ==
  /\ Spec
  /\ WF_vars(RunStep /\ (rpc = "create" => symphony = 0))
  /\ WF_vars(CancelStep)

-----------------------------------------------------------------------------
(* Properties.                                                             *)

Phases == {"identities", "membership", "symphony_bind", "run_issue"}

Manifests ==
  [status : {"none", "in_progress", "resumable", "complete", "cancelled"},
   steps : 0..Steps, phases : SUBSET Phases, runId : BOOLEAN, gen : 0..1]

\* The manifests and both programs' progress hold what their types allow: no
\* step is counted twice, and one cancel raises the generation once.
TypeOK ==
  /\ file \in [Instances -> Manifests] /\ tmp \in [Instances -> Manifests]
  /\ rpc \in Sites \cup
       {"idle", "scan", "load", "steps", "ensure", "identities", "mint",
        "minted", "membership", "join", "bind", "bringUp", "spawn", "ready",
        "issue", "create", "complete", "activate", "recheck", "reload",
        "fail", "fault", "failed", "cleanup", "end"}
  /\ mode \in {"command", "boot", "rebind"}
  /\ inst \in 0..MaxInstance /\ obs \in 0..1 /\ mem \in Manifests
  /\ saving \in {"none", "write", "rename"}
  /\ saving # "none" => rpc \in Sites
  /\ todo \in SUBSET Instances /\ booting \in BOOLEAN
  /\ cpc \in {"idle", "write", "rename", "reap", "stop", "clear"}
  /\ cinst \in 0..MaxInstance /\ cmem \in Manifests
  /\ agents \in SUBSET Instances
  /\ symphony \in 0..MaxInstance /\ active \in 0..MaxInstance
  /\ issues \in [Instances -> 0..MaxIssues]

Idle == rpc = "idle" /\ cpc = "idle"

\* The single-active gate holds on disk whatever cancels, failed saves and
\* restarts interleave with the runs: at most one instance is not cancelled.
SingleCompany == \A i, j \in NotCancelled : i = j

\* An instance is marked complete only when every step, every phase and the
\* run's id are in the same manifest.
CompleteIsEarned ==
  \A i \in Instances :
    file[i].status = "complete" =>
      /\ LifecycleIsComplete(file[i])
      /\ file[i].steps = Steps /\ "run_issue" \in file[i].phases

\* A checkpoint once on disk is never lost, to a failed step, a resume, a
\* cancel or a restart: a resumed run repeats nothing it has recorded.
ProgressKept ==
  [][\A i \in Instances :
       /\ file[i].steps <= file'[i].steps
       /\ file[i].phases \subseteq file'[i].phases
       /\ file[i].runId => file'[i].runId]_vars

Entry(m) ==
  [status |-> m.status, steps |-> m.steps, phases |-> m.phases,
   runId |-> m.runId]

Registry == INSTANCE CompanyRegistry WITH book <- [i \in Instances |-> Entry(file[i])]

\* The manifests on disk are a book of companies that is changed in one piece,
\* though they are read, written beside and renamed by a run and a cancel that
\* interleave, fail and restart: what any reader of the disk finds is an entry
\* of the registry, and a complete company is never taken up again.
ImplementsRegistry == Registry!Spec

\* However a cancel falls around the final bind or the rebind at boot, the
\* active binding does not stay on an instance whose tombstone is on disk.
NoCancelledBinding ==
  Idle /\ active # 0 => file[active].status # "cancelled"

\* A tombstone is never overwritten.
CancelIsFinal ==
  [][\A i \in Instances :
       file[i].status = "cancelled" => file'[i].status = "cancelled"]_vars

\* Once run and cancel are over, a cancelled instance has no children, even
\* if they came up after the cancel had reaped.
CancelReapsAgents ==
  Idle => \A i \in agents : file[i].status # "cancelled"

\* A cancelled instance is released for good: no children, not active.
CancelledIsReleased ==
  \A i \in Instances :
    file[i].status = "cancelled" ~> [](i \notin agents /\ active # i)
=============================================================================
